---------------------------- MODULE Spec2Model ----------------------------
(***************************************************************************)
(* Model of the ML service of zemfyre-sensor: the two model classes        *)
(* (IsolationForestAnomalyDetector, LSTMForecaster), the joblib/h5 files   *)
(* they persist under settings.MODEL_DIR, and the FastAPI handlers of      *)
(* routers/anomalies.py and routers/forecasts.py that drive them; and, in  *)
(* sections of their own at the end, the CAN bus simulator's server, the   *)
(* Node-RED predictor bridge and the MAX31855 thermocouple reader.         *)
(*                                                                         *)
(* Strings that end up in file names are sequences of one-character        *)
(* strings, so that str.replace and f-string concatenation are computed.   *)
(* Floats are carried as integers in thousandths (0.01 is 10).             *)
(***************************************************************************)
EXTENDS Integers, Sequences, FiniteSets, TLC

(***************************************************************************)
(* config.py                                                               *)
(***************************************************************************)
MIN_TRAINING_SAMPLES == 100
ISOLATION_FOREST_CONTAMINATION == 10
LSTM_SEQUENCE_LENGTH == 50
LSTM_FORECAST_HORIZON == 12

(***************************************************************************)
(* Bounds of the model.                                                    *)
(***************************************************************************)
\* number of training runs (fits) the service performs in one behaviour
MaxRuns == 2

(***************************************************************************)
(* Python string helpers.                                                  *)
(***************************************************************************)
\* str.replace(old, new) for one-character old and new
RECURSIVE str_replace(_, _, _)
str_replace(s, old, new) ==
    IF s = <<>> THEN <<>>
    ELSE <<(IF Head(s) = old THEN new ELSE Head(s))>> \o str_replace(Tail(s), old, new)

S_model_joblib == <<"_","m","o","d","e","l",".","j","o","b","l","i","b">>
S_scaler_joblib == <<"_","s","c","a","l","e","r",".","j","o","b","l","i","b">>
S_metadata_joblib == <<"_","m","e","t","a","d","a","t","a",".","j","o","b","l","i","b">>
S_lstm_h5 == <<"_","l","s","t","m",".","h","5">>

(***************************************************************************)
(* File names of the Model Store.  A path is the directory under           *)
(* settings.MODEL_DIR and the file name.                                   *)
(***************************************************************************)
IF_model_path(device_uuid) ==
    [dir |-> "isolation_forest", name |-> device_uuid \o S_model_joblib]
IF_scaler_path(device_uuid) ==
    [dir |-> "isolation_forest", name |-> device_uuid \o S_scaler_joblib]
IF_metadata_path(device_uuid) ==
    [dir |-> "isolation_forest", name |-> device_uuid \o S_metadata_joblib]

\* field.replace('.', '_')
field_safe(field) == str_replace(field, ".", "_")

LSTM_model_path(device_uuid, field) ==
    [dir |-> "lstm", name |-> device_uuid \o <<"_">> \o field_safe(field) \o S_lstm_h5]
LSTM_scaler_path(device_uuid, field) ==
    [dir |-> "lstm", name |-> device_uuid \o <<"_">> \o field_safe(field) \o S_scaler_joblib]
LSTM_metadata_path(device_uuid, field) ==
    [dir |-> "lstm", name |-> device_uuid \o <<"_">> \o field_safe(field) \o S_metadata_joblib]


(***************************************************************************)
(* Python values.  An optional value is NONE or Some(x); an exception is a *)
(* record of its class and of what its message says; NoExc is "no          *)
(* exception raised".                                                      *)
(***************************************************************************)
NONE == <<>>
Some(x) == <<x>>
Exc(cls, msg) == [cls |-> cls, msg |-> msg, status |-> 0]
NoExc == Exc("", "")
\* fastapi.HTTPException(status_code, detail)
HTTPException(status_code, detail) ==
    [cls |-> "HTTPException", msg |-> detail, status |-> status_code]

\* datetime.isoformat() and datetime.fromisoformat()
isoformat(t) == <<"iso", t>>
fromisoformat(s) == s[2]

\* len(range(n + 1)): a loop that also takes the last start index
range_len_inclusive(n) == IF n >= 0 THEN n + 1 ELSE 0

\* len(range(n))
range_len(n) == IF n > 0 THEN n ELSE 0

\* [f for f in seq if f in keep], order kept
RECURSIVE list_filter(_, _)
list_filter(seq, keep) ==
    IF seq = <<>> THEN <<>>
    ELSE (IF Head(seq) \in keep THEN <<Head(seq)>> ELSE <<>>) \o list_filter(Tail(seq), keep)

SeqToSet(seq) == {seq[i] : i \in 1..Len(seq)}

(***************************************************************************)
(* A fitted or unfitted estimator (IsolationForest, StandardScaler, keras  *)
(* Sequential, MinMaxScaler).  state is "none" (the attribute is None),    *)
(* "unfitted" (constructed, never fitted) or "fitted"; run is the training *)
(* run whose fit produced its parameters (0 when not fitted).              *)
(***************************************************************************)
NoModel == [state |-> "none", run |-> 0]
Unfitted == [state |-> "unfitted", run |-> 0]
Fitted(run) == [state |-> "fitted", run |-> run]

(***************************************************************************)
(* IsolationForestAnomalyDetector (models/isolation_forest.py).            *)
(* A DataFrame of the anomaly path is [rows, cols, nonnull]: its length,   *)
(* its column names, and the columns holding at least one non-null value.  *)
(***************************************************************************)
\* the columns of DataFetcher.fetch_multi_metric_history
MultiMetricColumns ==
    {"timestamp", "cpu_usage", "memory_used", "memory_total", "disk_used", "disk_total",
     "uptime", "temperature", "memory_usage_percent", "disk_usage_percent"}

\* __init__: contamination 0 stands for the argument None (both are falsy)
IF_init(contamination) ==
    [contamination |-> IF contamination = 0 THEN ISOLATION_FOREST_CONTAMINATION
                       ELSE contamination,
     model |-> NoModel,
     scaler |-> Unfitted,
     feature_names |-> NONE,
     trained_at |-> NONE,
     training_samples |-> 0]

\* train(df, features); fitOK says whether IsolationForest.fit returns;
\* run is the run being fitted and also the reading of datetime.now()
IF_train(self, df, features, fitOK, run) ==
    IF df.rows < MIN_TRAINING_SAMPLES
    THEN [obj |-> self, exc |-> Exc("ValueError", "Not enough data")]
    ELSE LET s1 == [self EXCEPT !.feature_names = Some(features),
                                !.training_samples = df.rows]
         IN IF ~(SeqToSet(features) \subseteq df.cols)
            THEN [obj |-> s1, exc |-> Exc("KeyError", "not in index")]
            ELSE LET s2 == [s1 EXCEPT !.scaler = Fitted(run), !.model = Unfitted]
                 IN IF ~fitOK
                    THEN [obj |-> s2, exc |-> Exc("ValueError", "fit failed")]
                    ELSE [obj |-> [s2 EXCEPT !.model = Fitted(run),
                                             !.trained_at = Some(run)],
                          exc |-> NoExc]

\* predict(df): scored says whether the scaler/model were applied to the rows
IF_predict(self, df) ==
    IF self.model.state = "none"
    THEN [exc |-> Exc("ValueError", "Model not trained"), scored |-> FALSE, result |-> NONE]
    ELSE IF self.feature_names = NONE
    THEN [exc |-> Exc("TypeError", "NoneType is not iterable"), scored |-> FALSE, result |-> NONE]
    ELSE IF ~(\A i \in 1..Len(self.feature_names[1]) : self.feature_names[1][i] \in df.cols)
    THEN [exc |-> Exc("ValueError", "Missing features"), scored |-> FALSE, result |-> NONE]
    ELSE IF self.scaler.state # "fitted" \/ self.model.state # "fitted"
    THEN [exc |-> Exc("NotFittedError", "not fitted yet"), scored |-> TRUE, result |-> NONE]
    ELSE [exc |-> NoExc, scored |-> TRUE,
          result |-> Some([rows |-> df.rows, model |-> self.model.run,
                           features |-> self.feature_names[1]])]

\* get_model_info() telling "trained" from the training date instead of the model
IF_get_model_info_by_date(self) ==
    [trained |-> self.trained_at # NONE,
     trained_at |-> IF self.trained_at # NONE THEN Some(isoformat(self.trained_at[1])) ELSE NONE,
     training_samples |-> self.training_samples,
     features |-> self.feature_names,
     contamination |-> self.contamination]

\* get_model_info()
IF_get_model_info(self) ==
    [trained |-> self.model.state # "none",
     trained_at |-> IF self.trained_at # NONE THEN Some(isoformat(self.trained_at[1])) ELSE NONE,
     training_samples |-> self.training_samples,
     features |-> self.feature_names,
     contamination |-> self.contamination]

\* the dict save() dumps to the metadata file
IF_metadata(self) ==
    [feature_names |-> self.feature_names,
     contamination |-> self.contamination,
     trained_at |-> IF self.trained_at # NONE THEN Some(isoformat(self.trained_at[1])) ELSE NONE,
     training_samples |-> self.training_samples]

\* load(): the assignments made from the metadata dict
IF_apply_metadata(self, metadata) ==
    [self EXCEPT !.feature_names = metadata.feature_names,
                 !.contamination = metadata.contamination,
                 !.training_samples = metadata.training_samples,
                 !.trained_at = IF metadata.trained_at # NONE
                                THEN Some(fromisoformat(metadata.trained_at[1]))
                                ELSE self.trained_at]

\* load(): the print of ', '.join(self.feature_names) that ends the method
IF_load_print(self) ==
    IF self.feature_names = NONE
    THEN Exc("TypeError", "can only join an iterable")
    ELSE NoExc

(***************************************************************************)
(* LSTMForecaster (models/lstm_forecast.py).                               *)
(* A DataFrame of the forecast path is [rows]: the length of its           *)
(* timestamp/value columns.                                                *)
(***************************************************************************)
\* __init__: an argument 0 stands for None (both are falsy)
LSTM_init(sequence_length, forecast_horizon) ==
    [sequence_length |-> IF sequence_length = 0 THEN LSTM_SEQUENCE_LENGTH
                         ELSE sequence_length,
     forecast_horizon |-> IF forecast_horizon = 0 THEN LSTM_FORECAST_HORIZON
                          ELSE forecast_horizon,
     model |-> NoModel,
     scaler |-> Unfitted,
     trained_at |-> NONE,
     training_samples |-> 0]

\* Python slice data[a:b] of a list, for 0 <= a <= b (1-based sequences here)
py_slice(data, a, b) ==
    LET hi == IF b > Len(data) THEN Len(data) ELSE b
        lo == IF a > hi THEN hi ELSE a
    IN [j \in 1..(hi - lo) |-> data[lo + j]]

\* prepare_sequences(data): the loop from i (0-based) up to the end of
\* range(len(data) - sequence_length - forecast_horizon), appending one
\* [X, y] pair per iteration
RECURSIVE prepare_loop(_, _, _, _)
prepare_loop(data, L, H, i) ==
    IF i >= range_len(Len(data) - L - H) THEN <<>>
    ELSE <<[X |-> py_slice(data, i, i + L), y |-> py_slice(data, i + L, i + L + H)]>>
         \o prepare_loop(data, L, H, i + 1)

prepare_sequences(self, data) ==
    prepare_loop(data, self.sequence_length, self.forecast_horizon, 0)

\* len(X) of prepare_sequences on a series of n rows
num_windows(self, n) == range_len(n - self.sequence_length - self.forecast_horizon)

\* train(df) without the test of the number of windows
LSTM_train_unchecked(self, df, fitOK, run) ==
    LET s2 == [self EXCEPT !.scaler = Fitted(run),
                           !.training_samples = num_windows(self, df.rows),
                           !.model = Unfitted]
    IN IF ~fitOK
       THEN [obj |-> s2, exc |-> Exc("RuntimeError", "fit failed")]
       ELSE [obj |-> [s2 EXCEPT !.model = Fitted(run), !.trained_at = Some(run)],
             exc |-> NoExc]

\* train(df); fitOK says whether keras fit returns; run as in IF_train
LSTM_train(self, df, fitOK, run) ==
    LET s1 == [self EXCEPT !.scaler = Fitted(run)]
        n == num_windows(self, df.rows)
    IN IF n < MIN_TRAINING_SAMPLES
       THEN [obj |-> s1, exc |-> Exc("ValueError", "Not enough data")]
       ELSE LET s2 == [s1 EXCEPT !.training_samples = n, !.model = Unfitted]
            IN IF ~fitOK
               THEN [obj |-> s2, exc |-> Exc("RuntimeError", "fit failed")]
               ELSE [obj |-> [s2 EXCEPT !.model = Fitted(run), !.trained_at = Some(run)],
                     exc |-> NoExc]

\* predict(recent_data): a compiled keras network answers predict() whether or
\* not fit ever completed; a MinMaxScaler that was never fitted raises
LSTM_predict(self, recent_data) ==
    IF self.model.state = "none"
    THEN [exc |-> Exc("ValueError", "Model not trained"), scored |-> FALSE, result |-> NONE]
    ELSE IF recent_data.rows < self.sequence_length
    THEN [exc |-> Exc("ValueError", "Need recent points"), scored |-> FALSE, result |-> NONE]
    ELSE IF self.scaler.state # "fitted"
    THEN [exc |-> Exc("NotFittedError", "not fitted yet"), scored |-> FALSE, result |-> NONE]
    ELSE [exc |-> NoExc, scored |-> TRUE,
          result |-> Some([rows |-> self.forecast_horizon, model |-> self.model.run,
                           weights |-> self.model.state])]

\* get_model_info()
LSTM_get_model_info(self) ==
    [trained |-> self.model.state # "none",
     trained_at |-> IF self.trained_at # NONE THEN Some(isoformat(self.trained_at[1])) ELSE NONE,
     training_samples |-> self.training_samples,
     sequence_length |-> self.sequence_length,
     forecast_horizon |-> self.forecast_horizon]

\* the dict save() dumps to the metadata file
LSTM_metadata(self, field) ==
    [sequence_length |-> self.sequence_length,
     forecast_horizon |-> self.forecast_horizon,
     trained_at |-> IF self.trained_at # NONE THEN Some(isoformat(self.trained_at[1])) ELSE NONE,
     training_samples |-> self.training_samples,
     field |-> field]

\* load(): the assignments made from the metadata dict
LSTM_apply_metadata(self, metadata) ==
    [self EXCEPT !.sequence_length = metadata.sequence_length,
                 !.forecast_horizon = metadata.forecast_horizon,
                 !.training_samples = metadata.training_samples,
                 !.trained_at = IF metadata.trained_at # NONE
                                THEN Some(fromisoformat(metadata.trained_at[1]))
                                ELSE self.trained_at]

(***************************************************************************)
(* The service: request handlers of routers/anomalies.py and               *)
(* routers/forecasts.py running over one Model Store (the files under      *)
(* settings.MODEL_DIR).  No handler, save() or load() takes a lock, so     *)
(* the grain of interleaving between two requests is the single file       *)
(* operation; the statements of a handler between two file operations      *)
(* touch request-local objects only and are one action.                    *)
(*                                                                         *)
(* The files of the two routers live in different directories              *)
(* (isolation_forest/ and lstm/) and the routers share no variable, so a   *)
(* behaviour exercises one router, chosen initially.  A behaviour has      *)
(* either one worker and collaborators (database, disk, fit) that may      *)
(* fail at every call, or two workers and collaborators that do not fail.  *)
(*                                                                         *)
(*   router  the router whose endpoints are exercised                      *)
(*   workers the workers serving requests, at most one request each        *)
(*   faults  whether calls to the database, the disk and fit may raise     *)
(*   store  file path -> content of the file (absent paths do not exist)   *)
(*   reqs   the requests being served, a set of records: the request's     *)
(*          parameters, how far its handler got (pc), the handler's local  *)
(*          detector/forecaster (obj) and fetcher, and its response; two   *)
(*          requests in the very same state are not told apart             *)
(*                                                                         *)
(* detect, predict and model-info requests write no file and no shared     *)
(* variable, so they do not affect one another: one of them in flight at a *)
(* time, next to the training requests, shows what any number of them can. *)
(*   resp   the request whose handler ended in the step just taken, with   *)
(*          its response (status, detail), or NoResp                       *)
(*   nruns  number of training runs that reached save()                    *)
(*   saved  history of save(): for every key (device_uuid, field) on which *)
(*          save() was called, the metadata dict of the last save() that   *)
(*          returned, or NONE while none has returned                      *)
(*                                                                         *)
(* The variables after saved belong to the specifications further down     *)
(* (SpecObj, SpecWin, SpecSev, SpecFc and those after them), and the       *)
(* handlers never touch them.                                              *)
(***************************************************************************)
VARIABLES router, workers, faults, store, reqs, resp, nruns, saved,
          instance, succeeded, trained_with, last,
          series, seq_len, horizon, windows,
          scores, offset_, result_df,
          recent_data, other_data, weights, predicted,
          table, trained,
          df_rows, split,
          response,
          server, running, clients, threads, peers, closed,
          stdin, eof, bridge, model, nread, stdout, nwritten,
          chip, data, got

client == <<instance, succeeded, trained_with, last>>
win == <<series, seq_len, horizon, windows>>
sev == <<scores, offset_, result_df>>
fc == <<recent_data, other_data, weights, predicted>>
tr == <<table, trained>>
sp == <<df_rows, split>>
det == <<response>>
can == <<server, running, clients, threads, peers, closed>>
br == <<stdin, eof, bridge, model, nread, stdout, nwritten>>
mx == <<chip, data, got>>
\* the variables of the specifications that follow SpecFc
ext == <<tr, sp, det, can, br, mx>>
vars == <<router, workers, faults, store, reqs, resp, nruns, saved, client, win, sev, fc, ext>>
env == <<router, workers, faults, client, win, sev, fc, ext>>

\* whether a call to a collaborator returns (TRUE) or raises (FALSE)
Returns == IF faults THEN BOOLEAN ELSE {TRUE}

a_ == <<"a">>
a_b == <<"a", "_", "b">>
b_dot_c == <<"b", ".", "c">>
b_us_c == <<"b", "_", "c">>
c_ == <<"c">>

\* the device_uuid path parameter of the anomaly requests
Devices == {a_, a_b}
\* the (device_uuid, field) parameters of the forecast requests (as with the
\* contamination below, fewer of them where two workers interleave)
ForecastKeys ==
    {<<a_, b_dot_c>>, <<a_, b_us_c>>} \cup (IF faults THEN {<<a_b, c_>>} ELSE {})
\* contamination query parameter: absent (0) or 0.05; the behaviours with two
\* workers explore interleavings, the others the variety of the inputs
Contaminations == IF faults THEN {0, 50} ELSE {0}

\* frames returned by fetch_multi_metric_history (rows with a null cpu_usage
\* are dropped, so cpu_usage is non-null in every non-empty frame)
Frame(rows, nonnull) == [rows |-> rows, cols |-> MultiMetricColumns, nonnull |-> nonnull]
AnomalyFrames ==
    {Frame(0, {}), Frame(99, {"cpu_usage", "memory_usage_percent"}),
     Frame(100, {"cpu_usage"}),
     Frame(150, {"cpu_usage", "memory_usage_percent", "disk_usage_percent", "temperature"})}
\* frames returned by fetch_device_history
ForecastFrames ==
    {[rows |-> n] : n \in {0, 49, 50, 99, 161, 162} \cup (IF faults THEN {170} ELSE {})}

AnomalyOps == {"train_anomaly", "detect", "anomaly_info"}
ForecastOps == {"train_forecast", "predict_forecast", "forecast_info"}
TrainOps == {"train_anomaly", "train_forecast"}

NoObj == [none |-> TRUE]
\* a request as its handler is entered; clean and untrained record what the
\* handler found in the store when it began: clean, that the entries of its
\* key were Whole; untrained, that none of them existed
Request(op, device, field) ==
    [pc |-> "", op |-> op, device |-> device, field |-> field, obj |-> NoObj,
     fetcher |-> "None", status |-> 0, detail |-> "", clean |-> FALSE,
     untrained |-> FALSE]

\* the key of a request: device_uuid, and field (<<>> on the anomaly router)
KeyOf(p) == <<p.device, p.field>>

model_path(p) ==
    IF p.op \in AnomalyOps THEN IF_model_path(p.device)
    ELSE LSTM_model_path(p.device, p.field)
scaler_path(p) ==
    IF p.op \in AnomalyOps THEN IF_scaler_path(p.device)
    ELSE LSTM_scaler_path(p.device, p.field)
metadata_path(p) ==
    IF p.op \in AnomalyOps THEN IF_metadata_path(p.device)
    ELSE LSTM_metadata_path(p.device, p.field)

\* Path.exists()
exists(st, path) == path \in DOMAIN st
\* joblib.dump(content, path) / keras Model.save(path)
dump(st, path, content) ==
    [q \in DOMAIN st \cup {path} |-> IF q = path THEN content ELSE st[q]]

\* a finally clause that closes nothing
close_skipped(fetcher) == fetcher

\* DataFetcher.close(), under the handlers' "if fetcher:"
close(fetcher) == IF fetcher = "open" THEN "closed" ELSE fetcher

\* the except clauses of the handlers
except_clause(op, exc) ==
    IF exc.cls = "FileNotFoundError" /\ op \notin TrainOps
    THEN [status |-> 404, detail |-> "Model not trained"]
    ELSE IF exc.cls = "HTTPException" /\ op \notin {"anomaly_info", "forecast_info"}
    THEN [status |-> exc.status, detail |-> exc.msg]
    ELSE [status |-> 500, detail |-> exc.msg]

\* the handler ends by raising exc: except clause, then finally
Raise(p, exc) ==
    [p EXCEPT !.pc = "done",
              !.status = except_clause(p.op, exc).status,
              !.detail = except_clause(p.op, exc).detail,
              !.fetcher = close(p.fetcher)]
\* the handler ends by returning its response model: finally
Return(p) ==
    [p EXCEPT !.pc = "done", !.status = 200, !.detail = "", !.fetcher = close(p.fetcher)]

NoResp == [pc |-> "none", op |-> "", status |-> 0]
InFlight == reqs
\* a request in flight is at p after a step of its handler, or is answered
Continue(others, p) ==
    IF p.pc = "done"
    THEN reqs' = others /\ resp' = p
    ELSE reqs' = others \cup {p} /\ resp' = NoResp
\* a request enters its handler on a free worker, and is at p after its first action
Enter(p) ==
    /\ Cardinality(reqs) < Cardinality(workers)
    /\ p.op \notin TrainOps => \A r \in reqs : r.op \in TrainOps
    /\ Continue(reqs, p)
\* the handler of request r takes a step to p
Step(r, p) == Continue(reqs \ {r}, p)

\* no call has been made on the object of SpecObj
NoCall == [op |-> "", exc |-> NoExc, scored |-> FALSE, result |-> NONE, cols |-> {}]
\* the variables of SpecObj, where that specification is not run
ClientIdle ==
    /\ instance = NoObj
    /\ succeeded = FALSE
    /\ trained_with = NONE
    /\ last = NoCall
\* the variables of SpecWin, where that specification is not run
WinIdle ==
    /\ series = <<>>
    /\ seq_len = 1
    /\ horizon = 1
    /\ windows = NONE

\* the variables of SpecSev, where that specification is not run
SevIdle ==
    /\ scores = <<>>
    /\ offset_ = 0
    /\ result_df = NONE
\* the variables of SpecFc, where that specification is not run
FcIdle ==
    /\ recent_data = <<>>
    /\ other_data = <<>>
    /\ weights = 0
    /\ predicted = NONE
\* the variables of SpecTr, where that specification is not run
TrIdle ==
    /\ table = NONE
    /\ trained = NONE
\* the variables of the specifications that follow SpecFc, where none is run
\* the variables of SpecSplit, where that specification is not run
SplitIdle ==
    /\ df_rows = 0
    /\ split = NONE
\* the variable of SpecDet, where that specification is not run
DetIdle ==
    /\ response = NONE
\* the variables of SpecCan, where that specification is not run
CanIdle ==
    /\ server = "created"
    /\ running = FALSE
    /\ clients = <<>>
    /\ threads = <<>>
    /\ peers = <<>>
    /\ closed = {}
\* the variables of SpecBridge, where that specification is not run
BridgeIdle ==
    /\ stdin = <<>>
    /\ eof = FALSE
    /\ bridge = "config"
    /\ model = "None"
    /\ nread = 0
    /\ stdout = <<>>
    /\ nwritten = 0
\* the variables of SpecMax, where that specification is not run
MaxIdle ==
    /\ chip = NONE
    /\ data = NONE
    /\ got = NONE
ExtIdle ==
    /\ TrIdle
    /\ SplitIdle
    /\ DetIdle
    /\ CanIdle
    /\ BridgeIdle
    /\ MaxIdle

TypeOK ==
    /\ \A r \in InFlight : r.pc \in
           {"save_model", "save_scaler", "save_metadata",
            "load_scaler", "load_metadata", "loaded"}
    /\ resp.pc \in {"none", "done"}
    /\ Cardinality(reqs) <= Cardinality(workers)
    /\ nruns \in 0..MaxRuns
    /\ router \in {"anomalies", "forecasts"}

Init ==
    /\ router \in {"anomalies", "forecasts"}
    /\ \/ workers = {"w1"} /\ faults = TRUE
       \/ workers = {"w1", "w2"} /\ faults = FALSE
    /\ store = <<>>
    /\ reqs = {}
    /\ resp = NoResp
    /\ nruns = 0
    /\ saved = <<>>
    /\ ClientIdle
    /\ WinIdle
    /\ SevIdle
    /\ FcIdle
    /\ ExtIdle

\* the (model, scaler, metadata) entries of p's key are all absent, or all
\* present and written by one training run
Whole(st, p) ==
    \/ /\ ~exists(st, model_path(p))
       /\ ~exists(st, scaler_path(p))
       /\ ~exists(st, metadata_path(p))
    \/ /\ exists(st, model_path(p))
       /\ exists(st, scaler_path(p))
       /\ exists(st, metadata_path(p))
       /\ st[model_path(p)].run = st[scaler_path(p)].run
       /\ st[metadata_path(p)].trained_at = Some(isoformat(st[model_path(p)].run))

\* none of the (model, scaler, metadata) entries of p's key exists
Untrained(st, p) ==
    /\ ~exists(st, model_path(p))
    /\ ~exists(st, scaler_path(p))
    /\ ~exists(st, metadata_path(p))

all_possible_features ==
    <<"cpu_usage", "memory_usage_percent", "disk_usage_percent", "uptime", "temperature">>

\* the columns of df, whatever they hold, in candidate order
select_features_present(df) == list_filter(all_possible_features, df.cols)

\* features = [f for f in all_possible_features
\*             if f in df.columns and df[f].notna().sum() > 0]
select_features(df) == list_filter(all_possible_features, df.cols \cap df.nonnull)

(***************************************************************************)
(* train_anomaly_detector, from its first line to the return of            *)
(* detector.train().  connectOK/fetchOK/fitOK say whether psycopg2.connect,*)
(* read_sql_query and IsolationForest.fit return or raise.                 *)
(***************************************************************************)
train_anomaly_fit(contamination, connectOK, fetchOK, df, fitOK, run) ==
    IF ~connectOK
    THEN [exc |-> Exc("OperationalError", "could not connect"), fetcher |-> "unconnected",
          obj |-> NoObj]
    ELSE IF ~fetchOK
    THEN [exc |-> Exc("DatabaseError", "query failed"), fetcher |-> "open", obj |-> NoObj]
    ELSE IF df.rows < 100
    THEN [exc |-> HTTPException(400, "Not enough data"), fetcher |-> "open", obj |-> NoObj]
    ELSE IF Len(select_features(df)) < 2
    THEN [exc |-> HTTPException(400, "Not enough features"), fetcher |-> "open",
          obj |-> NoObj]
    ELSE LET t == IF_train(IF_init(contamination), df, select_features(df), fitOK, run)
         IN [exc |-> t.exc, fetcher |-> "open", obj |-> t.obj]

\* train_forecaster, from its first line to the return of forecaster.train()
train_forecast_fit(connectOK, fetchOK, df, fitOK, run) ==
    IF ~connectOK
    THEN [exc |-> Exc("OperationalError", "could not connect"), fetcher |-> "unconnected",
          obj |-> NoObj]
    ELSE IF ~fetchOK
    THEN [exc |-> Exc("DatabaseError", "query failed"), fetcher |-> "open", obj |-> NoObj]
    ELSE IF df.rows < 100
    THEN [exc |-> HTTPException(400, "Not enough data"), fetcher |-> "open", obj |-> NoObj]
    ELSE LET t == LSTM_train(LSTM_init(0, 0), df, fitOK, run)
         IN [exc |-> t.exc, fetcher |-> "open", obj |-> t.obj]

\* a training handler has run up to save(): it either raised (r.exc), and its
\* detector/forecaster is dropped, or it holds a trained object and goes on
\* to the first write of save()
TrainStep(op, device, field, r) ==
    LET p == [Request(op, device, field) EXCEPT
                  !.fetcher = r.fetcher,
                  !.untrained = Untrained(store, Request(op, device, field))]
    IN IF r.exc # NoExc
       THEN /\ Enter(Raise(p, r.exc))
            /\ UNCHANGED <<env, store, nruns, saved>>
       ELSE /\ nruns < MaxRuns
            /\ Enter([p EXCEPT !.pc = "save_model", !.obj = r.obj])
            /\ nruns' = nruns + 1
            /\ saved' = IF KeyOf(p) \in DOMAIN saved THEN saved
                        ELSE dump(saved, KeyOf(p), NONE)
            /\ UNCHANGED <<env, store>>

train_anomaly_detector ==
    /\ router = "anomalies"
    /\ \E device \in Devices :
       \E r \in {train_anomaly_fit(contamination, connectOK, fetchOK, df, fitOK, nruns + 1) :
                    contamination \in Contaminations, df \in AnomalyFrames,
                    connectOK \in Returns, fetchOK \in Returns, fitOK \in Returns} :
          TrainStep("train_anomaly", device, <<>>, r)

train_forecaster ==
    /\ router = "forecasts"
    /\ \E key \in ForecastKeys :
       \E r \in {train_forecast_fit(connectOK, fetchOK, df, fitOK, nruns + 1) :
                    df \in ForecastFrames,
                    connectOK \in Returns, fetchOK \in Returns, fitOK \in Returns} :
          TrainStep("train_forecast", key[1], key[2], r)

(***************************************************************************)
(* save(): its three writes, one action each.  ok says whether the dump    *)
(* returns; a dump that raises is taken to leave the file as it was.  The  *)
(* handler drops its detector/forecaster when it ends.                     *)
(***************************************************************************)
metadata_of(p) ==
    IF p.op \in AnomalyOps THEN IF_metadata(p.obj) ELSE LSTM_metadata(p.obj, p.field)

SaveFails(r) ==
    /\ Step(r, Raise([r EXCEPT !.obj = NoObj], Exc("OSError", "dump failed")))
    /\ UNCHANGED <<env, store, nruns, saved>>

save_model(r) ==
    /\ r.pc = "save_model"
    /\ \E ok \in Returns :
          IF ok
          THEN /\ store' = dump(store, model_path(r), r.obj.model)
               /\ Step(r, [r EXCEPT !.pc = "save_scaler"])
               /\ UNCHANGED <<env, nruns, saved>>
          ELSE SaveFails(r)

save_scaler(r) ==
    /\ r.pc = "save_scaler"
    /\ \E ok \in Returns :
          IF ok
          THEN /\ store' = dump(store, scaler_path(r), r.obj.scaler)
               /\ Step(r, [r EXCEPT !.pc = "save_metadata"])
               /\ UNCHANGED <<env, nruns, saved>>
          ELSE SaveFails(r)

\* the last write of save(), then the handler's return
save_metadata(r) ==
    /\ r.pc = "save_metadata"
    /\ \E ok \in Returns :
          IF ok
          THEN /\ store' = dump(store, metadata_path(r), metadata_of(r))
               /\ saved' = dump(saved, KeyOf(r), Some(metadata_of(r)))
               /\ Step(r, Return([r EXCEPT !.obj = NoObj]))
               /\ UNCHANGED <<env, nruns>>
          ELSE SaveFails(r)

(***************************************************************************)
(* load(): the exists() test and read of the model file, the read of the   *)
(* scaler file, the exists() test and read of the metadata file.  The      *)
(* handlers that load start with a fresh object and call load() at once,   *)
(* so the first of the three is the handler's first action.                *)
(***************************************************************************)
\* detector = IsolationForestAnomalyDetector() / forecaster = LSTMForecaster()
Fresh(op) == IF op \in AnomalyOps THEN IF_init(0) ELSE LSTM_init(0, 0)

load_model(op, device, field) ==
    LET p == [Request(op, device, field) EXCEPT !.obj = Fresh(op)]
    IN /\ IF ~exists(store, model_path(p))
          THEN Enter(Raise(p, Exc("FileNotFoundError", "Model not found")))
          ELSE Enter([p EXCEPT !.pc = "load_scaler",
                               !.obj.model = store[model_path(p)],
                               !.clean = Whole(store, p)])
       /\ UNCHANGED <<env, store, nruns, saved>>

detect_anomalies ==
    /\ router = "anomalies"
    /\ \E device \in Devices : load_model("detect", device, <<>>)

anomalies_get_model_info ==
    /\ router = "anomalies"
    /\ \E device \in Devices : load_model("anomaly_info", device, <<>>)

predict_future ==
    /\ router = "forecasts"
    /\ \E key \in ForecastKeys : load_model("predict_forecast", key[1], key[2])

forecasts_get_model_info ==
    /\ router = "forecasts"
    /\ \E key \in ForecastKeys : load_model("forecast_info", key[1], key[2])

\* load() that writes the scaler it read back to its file as a new, unfitted one
load_scaler_rewriting(r) ==
    /\ r.pc = "load_scaler"
    /\ IF ~exists(store, scaler_path(r))
       THEN /\ Step(r, Raise(r, Exc("FileNotFoundError", "No such file")))
            /\ UNCHANGED store
       ELSE /\ Step(r, [r EXCEPT !.pc = "load_metadata", !.obj.scaler = store[scaler_path(r)]])
            /\ store' = dump(store, scaler_path(r), Unfitted)
    /\ UNCHANGED <<env, nruns, saved>>

load_scaler(r) ==
    /\ r.pc = "load_scaler"
    /\ IF ~exists(store, scaler_path(r))
       THEN Step(r, Raise(r, Exc("FileNotFoundError", "No such file")))
       ELSE Step(r, [r EXCEPT !.pc = "load_metadata", !.obj.scaler = store[scaler_path(r)]])
    /\ UNCHANGED <<env, store, nruns, saved>>

\* the object after the metadata step of load()
with_metadata(st, p) ==
    IF ~exists(st, metadata_path(p)) THEN p.obj
    ELSE IF p.op \in AnomalyOps THEN IF_apply_metadata(p.obj, st[metadata_path(p)])
    ELSE LSTM_apply_metadata(p.obj, st[metadata_path(p)])

\* the exception, if any, raised by the prints that end load()
load_print(p, obj) == IF p.op \in AnomalyOps THEN IF_load_print(obj) ELSE NoExc

load_metadata(r) ==
    /\ r.pc = "load_metadata"
    /\ LET obj == with_metadata(store, r)
           p == [r EXCEPT !.obj = obj]
       IN IF load_print(p, obj) # NoExc
          THEN Step(r, Raise(p, load_print(p, obj)))
          ELSE Step(r, [p EXCEPT !.pc = "loaded"])
    /\ UNCHANGED <<env, store, nruns, saved>>

(***************************************************************************)
(* The handlers after load() returned.  The handler drops its              *)
(* detector/forecaster when it ends.                                       *)
(***************************************************************************)
\* detect_anomalies, from "fetcher = DataFetcher()" to its return
detect_after_load(obj, connectOK, fetchOK, df) ==
    IF ~connectOK
    THEN [exc |-> Exc("OperationalError", "could not connect"), fetcher |-> "unconnected"]
    ELSE IF ~fetchOK
    THEN [exc |-> Exc("DatabaseError", "query failed"), fetcher |-> "open"]
    ELSE IF df.rows = 0
    THEN [exc |-> HTTPException(404, "No data found"), fetcher |-> "open"]
    ELSE [exc |-> IF_predict(obj, df).exc, fetcher |-> "open"]

\* predict_future, from "hours_needed = ..." to its return
predict_after_load(obj, connectOK, fetchOK, df) ==
    IF ~connectOK
    THEN [exc |-> Exc("OperationalError", "could not connect"), fetcher |-> "unconnected"]
    ELSE IF ~fetchOK
    THEN [exc |-> Exc("DatabaseError", "query failed"), fetcher |-> "open"]
    ELSE IF df.rows < obj.sequence_length
    THEN [exc |-> HTTPException(400, "Not enough recent data"), fetcher |-> "open"]
    ELSE [exc |-> LSTM_predict(obj, df).exc, fetcher |-> "open"]

\* the handler of r ends with outcome o of its part after load()
AfterLoad(r, o) ==
    LET p == [r EXCEPT !.fetcher = o.fetcher, !.obj = NoObj]
    IN /\ Step(r, IF o.exc # NoExc THEN Raise(p, o.exc) ELSE Return(p))
       /\ UNCHANGED <<env, store, nruns, saved>>

detect_respond(r) ==
    /\ r.pc = "loaded" /\ r.op = "detect"
    /\ \E o \in {detect_after_load(r.obj, connectOK, fetchOK, df) :
                    connectOK \in Returns, fetchOK \in Returns, df \in AnomalyFrames} :
          AfterLoad(r, o)

predict_respond(r) ==
    /\ r.pc = "loaded" /\ r.op = "predict_forecast"
    /\ \E o \in {predict_after_load(r.obj, connectOK, fetchOK, df) :
                    connectOK \in Returns, fetchOK \in Returns, df \in ForecastFrames} :
          AfterLoad(r, o)

\* both get_model_info handlers: return the object's get_model_info()
model_info_respond(r) ==
    /\ r.pc = "loaded" /\ r.op \in {"anomaly_info", "forecast_info"}
    /\ AfterLoad(r, [exc |-> NoExc, fetcher |-> "None"])

Next ==
    \/ train_anomaly_detector
    \/ train_forecaster
    \/ detect_anomalies
    \/ anomalies_get_model_info
    \/ predict_future
    \/ forecasts_get_model_info
    \/ \E r \in InFlight :
        \/ save_model(r)
        \/ save_scaler(r)
        \/ save_metadata(r)
        \/ load_scaler(r)
        \/ load_metadata(r)
        \/ detect_respond(r)
        \/ predict_respond(r)
        \/ model_info_respond(r)

Spec == Init /\ [][Next]_vars

(***************************************************************************)
(* Properties of the Model Store under Spec.                               *)
(***************************************************************************)
ReadOps == {"detect", "anomaly_info", "predict_forecast", "forecast_info"}
\* the keys of the router's endpoints
Keys == IF router = "anomalies" THEN {<<d, <<>>>> : d \in Devices} ELSE ForecastKeys
\* a loading request of key k on the router, as its handler is entered
AsRequest(k) ==
    [Request(IF router = "anomalies" THEN "detect" ELSE "predict_forecast", k[1], k[2])
        EXCEPT !.obj = Fresh(IF router = "anomalies" THEN "detect" ELSE "predict_forecast")]
\* what the store holds under key k: each of the three files, or NONE
Entries(st, k) ==
    LET p == AsRequest(k)
        file(path) == IF exists(st, path) THEN Some(st[path]) ELSE NONE
    IN <<file(model_path(p)), file(scaler_path(p)), file(metadata_path(p))>>
\* save() was never called under another key that uses the files of p's key
Alone(p) ==
    \A k \in DOMAIN saved : k # KeyOf(p) => model_path(AsRequest(k)) # model_path(p)
\* the metadata the round trip is about: feature names, contamination and sample
\* count (anomaly); sequence length, horizon and sample count (forecast)
Listed(md) ==
    IF router = "anomalies"
    THEN <<md.feature_names, md.contamination, md.training_samples>>
    ELSE <<md.sequence_length, md.forecast_horizon, md.training_samples>>

\* C1: a load that began when the three entries of its key came from one training
\* run returns the model, the scaler and the metadata of one training run,
\* whatever saves of that key run while it loads (the key's files being its own)
C1_LoadSeesOneSave ==
    \A r \in InFlight :
        (r.pc = "loaded" /\ r.clean /\ Alone(r)) =>
            /\ r.obj.model.run = r.obj.scaler.run
            /\ r.obj.trained_at = Some(r.obj.model.run)

\* C2: when a training request has answered 200 and no other training request of
\* its key is under way, the model, scaler and metadata stored for the key all
\* come from one training run (the key's files being its own)
C2_TrainingsLeaveOneRun ==
    (/\ resp.pc = "done" /\ resp.op \in TrainOps /\ resp.status = 200
     /\ \A r \in InFlight : r.op \in TrainOps => KeyOf(r) # KeyOf(resp)
     /\ Alone(resp))
    => Whole(store, resp)

\* C3: a training request that began on a key with no entry and failed leaves
\* the key with no model, no scaler and no metadata entry
C3_FailedTrainingLeavesNothing ==
    (resp.pc = "done" /\ resp.op \in TrainOps /\ resp.status # 200 /\ resp.untrained)
    => Untrained(store, resp)

\* C4: a step of a request of one key leaves the three entries of every other
\* key as they were
C4_SaveKeepsOtherKeys ==
    [][\A r \in reqs \ reqs' : \A k \in Keys \ {KeyOf(r)} :
           Entries(store', k) = Entries(store, k)]_vars

\* C5: for every key with a save that returned, loading the key into a fresh
\* object gives the listed metadata of the last such save
C5_LoadReproducesLastSave ==
    \A k \in DOMAIN saved :
        saved[k] # NONE =>
            LET p == AsRequest(k)
                loaded == [p EXCEPT !.obj = with_metadata(store, p)]
            IN /\ exists(store, metadata_path(p))
               /\ Listed(metadata_of(loaded)) = Listed(saved[k][1])

\* C6: a detect, predict or model-info request of a key on which save() was never
\* called, served while no other request is under way and after every save()
\* that began has returned, answers 404
C6_NeverSavedIs404 ==
    (/\ resp.pc = "done" /\ resp.op \in ReadOps /\ KeyOf(resp) \notin DOMAIN saved
     /\ reqs = {} /\ \A k \in DOMAIN saved : saved[k] # NONE)
    => resp.status = 404

(***************************************************************************)
(* Properties of the handlers' responses under Spec.                       *)
(***************************************************************************)
\* the error of train() on fewer samples than MIN_TRAINING_SAMPLES
NotEnoughData == Exc("ValueError", "Not enough data")

\* the outcomes of train() on a fresh detector/forecaster for the tables the
\* training handlers may be handed, each with the table's sample count (rows,
\* or windows for the forecaster)
FreshTrainings ==
    IF router = "anomalies"
    THEN {[samples |-> df.rows,
           t |-> IF_train(IF_init(c), df, select_features(df), fitOK, nruns + 1)] :
             df \in AnomalyFrames, c \in Contaminations, fitOK \in Returns}
    ELSE {[samples |-> num_windows(LSTM_init(0, 0), df.rows),
           t |-> LSTM_train(LSTM_init(0, 0), df, fitOK, nruns + 1)] :
             df \in ForecastFrames, fitOK \in Returns}

\* C16: every metadata entry of the store, and every detector/forecaster being
\* saved, has training_samples >= MIN_TRAINING_SAMPLES; train() of a fresh
\* object on fewer samples raises the "Not enough data" ValueError and leaves
\* its model attribute None; a training request that ended with that error did
\* not answer 200
C16_PersistedAboveMinimum ==
    /\ \A k \in Keys :
          exists(store, metadata_path(AsRequest(k))) =>
              store[metadata_path(AsRequest(k))].training_samples >= MIN_TRAINING_SAMPLES
    /\ \A r \in InFlight :
          r.op \in TrainOps =>
              /\ r.obj.training_samples >= MIN_TRAINING_SAMPLES
              /\ r.obj.model.state = "fitted"
    /\ \A c \in FreshTrainings :
          c.samples < MIN_TRAINING_SAMPLES =>
              c.t.exc = NotEnoughData /\ c.t.obj.model = NoModel
    /\ (resp.pc = "done" /\ resp.op \in TrainOps /\ resp.detail = "Not enough data")
          => resp.status # 200

\* C16, witness: a key holds metadata with exactly MIN_TRAINING_SAMPLES samples,
\* and a training request has just failed for lack of data
C16_MinimumSavedThenRefused ==
    /\ \E k \in Keys :
          /\ exists(store, metadata_path(AsRequest(k)))
          /\ store[metadata_path(AsRequest(k))].training_samples = MIN_TRAINING_SAMPLES
    /\ resp.pc = "done" /\ resp.op \in TrainOps /\ resp.detail = "Not enough data"

\* C17: a response that reports too little data has status 400, one that reports
\* missing features does not have status 500, and one that reports a missing
\* model has status 404
C17_DomainErrorsKeepTheirStatus ==
    resp.pc = "done" =>
        /\ resp.detail \in {"Not enough data", "Not enough recent data", "Need recent points"}
              => resp.status = 400
        /\ resp.detail = "Missing features" => resp.status # 500
        /\ resp.detail = "Model not trained" => resp.status = 404

\* C18: a detect request whose table has no row answers 400, and a detect
\* request answers 404 only when load() found no model
C18_NoDataIs400 ==
    (resp.pc = "done" /\ resp.op = "detect") =>
        /\ resp.detail = "No data found" => resp.status = 400
        /\ resp.status = 404 => resp.detail = "Model not trained"

\* what became of the connection of an answered request: no DataFetcher was
\* made ("None"), connect() raised ("unconnected"), or it was opened
Opened(p) ==
    IF \/ p.op \in {"anomaly_info", "forecast_info"}
       \/ p.op \in ReadOps /\ p.detail \in {"Model not trained", "can only join an iterable"}
    THEN "None"
    ELSE IF p.detail = "could not connect" THEN "unconnected"
    ELSE "open"

\* C19: when a request is answered its connection is not open: it is closed if
\* the request opened one, and otherwise left as it was (no DataFetcher, or a
\* DataFetcher that never connected); while a handler runs its connection is
\* at most open
C19_ConnectionReleased ==
    /\ resp.pc = "done" =>
          /\ resp.fetcher # "open"
          /\ resp.fetcher = (IF Opened(resp) = "open" THEN "closed" ELSE Opened(resp))
    /\ \A r \in InFlight : r.fetcher \in {"None", "open"}

\* C19, witness: a training request whose save() failed, after fetch and fit, has
\* been answered 500 with its connection closed
C19_ClosedAfterFailedSave ==
    /\ resp.pc = "done" /\ resp.op \in TrainOps
    /\ resp.status = 500 /\ resp.detail = "dump failed"
    /\ resp.fetcher = "closed"

\* the step is one of a detect, predict or model-info request
ReadStep ==
    \/ resp'.pc = "done" /\ resp'.op \in ReadOps
    \/ \E r \in reqs' \ reqs : r.op \in ReadOps

\* C20: a step of a detect, predict or model-info request, whether it fails or
\* not and whatever else is under way, leaves every entry of the store as it is
C20_ReadsLeaveStoreAlone == [][ReadStep => store' = store]_vars

\* C20, witness: a detect or predict request has answered 200 over a store that
\* a training request is writing
C20_ReadAnsweredDuringTraining ==
    /\ resp.pc = "done" /\ resp.op \in {"detect", "predict_forecast"}
    /\ resp.status = 200
    /\ \E r \in InFlight : r.op \in TrainOps /\ KeyOf(r) = KeyOf(resp)

\* C22: two requests of one endpoint answered 500 one after the other get the
\* same response body, whatever exceptions were raised inside their handlers
C22_GenericFailureMessage ==
    [][(/\ resp.pc = "done" /\ resp.status = 500
        /\ resp'.pc = "done" /\ resp'.status = 500
        /\ resp'.op = resp.op)
       => resp'.detail = resp.detail]_vars

\* C25: where requests are served one at a time, a training request that failed
\* on a key whose last save() had returned (the key's files being its own) leaves
\* under the key the model, the scaler and the metadata of that save
C25_FailedRetrainingKeepsEntry ==
    (/\ resp.pc = "done" /\ resp.op \in TrainOps /\ resp.status # 200
     /\ Cardinality(workers) = 1
     /\ KeyOf(resp) \in DOMAIN saved /\ saved[KeyOf(resp)] # NONE
     /\ Alone(resp))
    => /\ Whole(store, resp)
       /\ store[metadata_path(resp)] = saved[KeyOf(resp)][1]

(***************************************************************************)
(* SpecObj: one IsolationForestAnomalyDetector or LSTMForecaster object    *)
(* (router tells which) in the hands of a caller that constructs it and    *)
(* calls train, save, load, predict and get_model_info on it in any order, *)
(* going on after a call that raised.  Each call is one action.  The       *)
(* object saves and loads under one key, in store.                         *)
(*                                                                         *)
(*   instance      the object                                              *)
(*   succeeded     a train() or load() call on instance has returned       *)
(*   trained_with  the feature_names of instance as the last train() or    *)
(*                 load() that returned left them, or NONE                 *)
(*   last          the last call: its name, the exception it raised or     *)
(*                 NoExc, whether it applied scaler/model to the rows, its *)
(*                 result, and the columns of the table it was given       *)
(***************************************************************************)
ObjOp == IF router = "anomalies" THEN "detect" ELSE "predict_forecast"
\* the object with the paths of its key
ObjRequest(self) == [Request(ObjOp, a_, c_) EXCEPT !.obj = self]

\* tables handed to train() and predict() of the detector
ObjAnomalyFrames ==
    {[rows |-> n, cols |-> c, nonnull |-> c] :
        n \in {99, 100},
        c \in {{"cpu_usage", "memory_usage_percent"}, {"cpu_usage", "disk_usage_percent"},
               {"cpu_usage", "memory_usage_percent", "disk_usage_percent"}}}
\* feature lists handed to train() of the detector
ObjFeatures ==
    {<<"cpu_usage", "memory_usage_percent">>, <<"cpu_usage", "disk_usage_percent">>}
\* tables handed to train() and predict() of the forecaster
ObjForecastFrames == {[rows |-> n] : n \in {49, 50, 161, 162}}

\* load(), all of it: the object it leaves and the exception it raises
load(st, p) ==
    IF ~exists(st, model_path(p))
    THEN [obj |-> p.obj, exc |-> Exc("FileNotFoundError", "Model not found")]
    ELSE LET s1 == [p.obj EXCEPT !.model = st[model_path(p)]]
         IN IF ~exists(st, scaler_path(p))
            THEN [obj |-> s1, exc |-> Exc("FileNotFoundError", "No such file")]
            ELSE LET s2 == [s1 EXCEPT !.scaler = st[scaler_path(p)]]
                     s3 == with_metadata(st, [p EXCEPT !.obj = s2])
                 IN [obj |-> s3, exc |-> load_print(p, s3)]

\* save(), all of it, when the first k of its three dumps return and the next
\* raises: the files it leaves and the exception it raises.  self.model.save of
\* the forecaster raises AttributeError when model is None
save(st, p, k) ==
    IF p.op \notin AnomalyOps /\ p.obj.model = NoModel
    THEN [st |-> st, exc |-> Exc("AttributeError", "NoneType has no attribute save")]
    ELSE LET st1 == IF k >= 1 THEN dump(st, model_path(p), p.obj.model) ELSE st
             st2 == IF k >= 2 THEN dump(st1, scaler_path(p), p.obj.scaler) ELSE st1
             st3 == IF k >= 3 THEN dump(st2, metadata_path(p), metadata_of(p)) ELSE st2
         IN [st |-> st3, exc |-> IF k >= 3 THEN NoExc ELSE Exc("OSError", "dump failed")]

\* the bookkeeping of a call op that left the object as obj and returned out
Called(op, obj, out) ==
    LET returned == op \in {"train", "load"} /\ out.exc = NoExc
    IN /\ instance' = obj
       /\ succeeded' = (succeeded \/ returned)
       /\ trained_with' = IF returned /\ router = "anomalies" THEN obj.feature_names
                          ELSE trained_with
       /\ last' = [op |-> op, exc |-> out.exc, scored |-> out.scored,
                   result |-> out.result, cols |-> out.cols]
       /\ UNCHANGED <<router, workers, faults, reqs, resp, saved, win, sev, fc, ext>>

\* what a call that is no predict() reports
Outcome(exc, result) == [exc |-> exc, scored |-> FALSE, result |-> result, cols |-> {}]

\* the service's variables, where the service is not run
SvcIdle ==
    /\ workers = {}
    /\ store = <<>>
    /\ reqs = {}
    /\ resp = NoResp
    /\ nruns = 0
    /\ saved = <<>>

InitObj ==
    /\ router \in {"anomalies", "forecasts"}
    /\ faults = TRUE
    /\ SvcIdle
    /\ instance = Fresh(ObjOp)
    /\ succeeded = FALSE
    /\ trained_with = NONE
    /\ last = NoCall
    /\ WinIdle
    /\ SevIdle
    /\ FcIdle
    /\ ExtIdle

\* IsolationForestAnomalyDetector(contamination) / LSTMForecaster()
call_init ==
    /\ \E obj \in (IF router = "anomalies" THEN {IF_init(c) : c \in Contaminations}
                   ELSE {LSTM_init(0, 0)}) :
          /\ instance' = obj
          /\ succeeded' = FALSE
          /\ trained_with' = NONE
          /\ last' = [NoCall EXCEPT !.op = "init"]
    /\ UNCHANGED <<router, workers, faults, store, reqs, resp, nruns, saved, win, sev, fc, ext>>

call_train ==
    /\ nruns < MaxRuns
    /\ \E t \in (IF router = "anomalies"
                 THEN {IF_train(instance, df, features, fitOK, nruns + 1) :
                          df \in ObjAnomalyFrames, features \in ObjFeatures,
                          fitOK \in BOOLEAN}
                 ELSE {LSTM_train(instance, df, fitOK, nruns + 1) :
                          df \in ObjForecastFrames, fitOK \in BOOLEAN}) :
          Called("train", t.obj, Outcome(t.exc, NONE))
    /\ nruns' = nruns + 1
    /\ UNCHANGED store

call_save ==
    /\ \E k \in 0..3 :
          LET w == save(store, ObjRequest(instance), k)
          IN /\ store' = w.st
             /\ Called("save", instance, Outcome(w.exc, NONE))
    /\ UNCHANGED nruns

call_load ==
    /\ LET l == load(store, ObjRequest(instance))
       IN Called("load", l.obj, Outcome(l.exc, NONE))
    /\ UNCHANGED <<store, nruns>>

call_predict ==
    /\ \E o \in (IF router = "anomalies"
                 THEN {[exc |-> IF_predict(instance, df).exc,
                        scored |-> IF_predict(instance, df).scored,
                        result |-> IF_predict(instance, df).result,
                        cols |-> df.cols] : df \in ObjAnomalyFrames}
                 ELSE {[exc |-> LSTM_predict(instance, df).exc,
                        scored |-> LSTM_predict(instance, df).scored,
                        result |-> LSTM_predict(instance, df).result,
                        cols |-> {}] : df \in ObjForecastFrames}) :
          Called("predict", instance, o)
    /\ UNCHANGED <<store, nruns>>

call_get_model_info ==
    /\ Called("get_model_info", instance,
              Outcome(NoExc, Some(IF router = "anomalies" THEN IF_get_model_info(instance)
                                  ELSE LSTM_get_model_info(instance))))
    /\ UNCHANGED <<store, nruns>>

NextObj ==
    \/ call_init
    \/ call_train
    \/ call_save
    \/ call_load
    \/ call_predict
    \/ call_get_model_info

SpecObj == InitObj /\ [][NextObj]_vars

\* the error of predict() on an object without a model
NotTrained == Exc("ValueError", "Model not trained")
\* the error of predict() on a table that lacks a feature
FeatureMismatch == Exc("ValueError", "Missing features")

\* C7: a predict() call on an object on which no train() or load() call has
\* returned raises the "Model not trained" ValueError and gives no result
C7_PredictBeforeTrainFails ==
    (last.op = "predict" /\ ~succeeded) => (last.exc = NotTrained /\ last.result = NONE)

\* C8 (as amended): get_model_info() of a detector on which no train() or load()
\* call has returned raises nothing and returns the metadata record, whose
\* trained flag tells whether the model attribute is set
C8_InfoBeforeTrainReturns ==
    (router = "anomalies" /\ last.op = "get_model_info" /\ ~succeeded) =>
        /\ last.exc = NoExc
        /\ last.result # NONE
        /\ last.result[1].trained = (instance.model # NoModel)

\* C8, witness: get_model_info() was called on a detector whose train() had
\* raised in fit, no train() or load() having returned
C8_InfoCalledAfterFailedFit ==
    /\ router = "anomalies" /\ last.op = "get_model_info" /\ ~succeeded
    /\ instance.model = Unfitted

\* C8 (as claimed): get_model_info() of a detector on which no train() or load()
\* call has returned raises the "Model not trained" error and returns no record
C8_InfoBeforeTrainFails ==
    (router = "anomalies" /\ last.op = "get_model_info" /\ ~succeeded) =>
        (last.exc = NotTrained /\ last.result = NONE)

\* C9: predict() of a detector that holds a fitted model, and whose last returned
\* train() or load() left the feature set F, raises the "Missing features"
\* ValueError exactly when the table lacks a name of F, and then without having
\* applied the scaler or the model
C9_FeatureMismatchIffMissing ==
    (/\ router = "anomalies" /\ last.op = "predict" /\ trained_with # NONE
     /\ instance.model.state = "fitted") =>
        /\ (last.exc = FeatureMismatch) <=> ~(SeqToSet(trained_with[1]) \subseteq last.cols)
        /\ (last.exc = FeatureMismatch) => ~last.scored

(***************************************************************************)
(* SpecWin: prepare_sequences on a series, a sequence length and a         *)
(* forecast horizon drawn from bounded sets.                               *)
(***************************************************************************)
\* longest series
MaxSeries == 5
\* largest sequence length and largest forecast horizon
MaxWindow == 2
\* the values of a series are 0..MaxValue
MaxValue == 1

InitWin ==
    /\ router = "forecasts"
    /\ faults = FALSE
    /\ SvcIdle
    /\ ClientIdle
    /\ SevIdle
    /\ FcIdle
    /\ ExtIdle
    /\ series \in UNION {[1..n -> 0..MaxValue] : n \in 0..MaxSeries}
    /\ seq_len \in 1..MaxWindow
    /\ horizon \in 1..MaxWindow
    /\ windows = NONE

\* LSTMForecaster(seq_len, horizon).prepare_sequences(series)
call_prepare_sequences ==
    /\ windows = NONE
    /\ windows' = Some(prepare_sequences(LSTM_init(seq_len, horizon), series))
    /\ UNCHANGED <<router, workers, faults, store, reqs, resp, nruns, saved, client,
                   series, seq_len, horizon, sev, fc, ext>>

NextWin == call_prepare_sequences

SpecWin == InitWin /\ [][NextWin]_vars

\* C10: prepare_sequences gives max(0, N-L-H) windows, and window i (0-based) has
\* X = series[i : i+L], of length L, and y = series[i+L : i+L+H], of length H
C10_Windower ==
    windows # NONE =>
        LET w == windows[1]
            n == Len(series) - seq_len - horizon
        IN /\ Len(w) = (IF n > 0 THEN n ELSE 0)
           /\ \A i \in 1..Len(w) :
                 /\ Len(w[i].X) = seq_len
                 /\ Len(w[i].y) = horizon
                 /\ \A j \in 1..seq_len : w[i].X[j] = series[(i - 1) + j]
                 /\ \A j \in 1..horizon : w[i].y[j] = series[(i - 1) + seq_len + j]

\* C10, witness: prepare_sequences returned three windows
C10_ThreeWindows == windows # NONE /\ Len(windows[1]) = 3

(***************************************************************************)
(* SpecSev: the scoring part of IsolationForestAnomalyDetector.predict     *)
(* (lines 80-102) on a batch of scores.  A score is an integer (the value  *)
(* of score_samples in some fixed unit; scores are not positive).          *)
(*                                                                         *)
(*   scores     the value of model.score_samples(X_scaled), one per row    *)
(*   offset_    the fitted IsolationForest's offset_: model.predict gives  *)
(*              -1 for the rows whose score is below it, 1 for the others  *)
(*   result_df  the rows of the DataFrame predict builds, or NONE before   *)
(*              the call                                                   *)
(***************************************************************************)
\* longest batch of scored rows
MaxBatch == 4
\* the scores of a batch are -MaxScore..0
MaxScore == 2

\* the k-th smallest (k from 0) of a non-empty list of numbers
kth_smallest(a, k) ==
    CHOOSE v \in SeqToSet(a) :
        /\ Cardinality({i \in 1..Len(a) : a[i] < v}) <= k
        /\ Cardinality({i \in 1..Len(a) : a[i] <= v}) > k

\* 100 * np.percentile(a, q) for a non-empty list a and an integer q in 0..100
\* (linear interpolation between the two closest ranks)
percentile_x100(a, q) ==
    LET virtual == (Len(a) - 1) * q
        lo == virtual \div 100
        frac == virtual % 100
        hi == IF lo + 1 > Len(a) - 1 THEN Len(a) - 1 ELSE lo + 1
    IN 100 * kth_smallest(a, lo) + frac * (kth_smallest(a, hi) - kth_smallest(a, lo))

\* IsolationForest.predict: -1 = anomaly, 1 = normal
model_predict(a, offset) == [i \in 1..Len(a) |-> IF a[i] < offset THEN -1 ELSE 1]

\* the severity lambda with the anomaly flag tested first
severity_flag_first(row, threshold_x100) ==
    IF row.is_anomaly THEN "warning"
    ELSE IF 100 * row.anomaly_score < threshold_x100 THEN "critical"
    ELSE "normal"

\* the lambda of result_df.apply: the severity of one row
severity(row, threshold_x100) ==
    IF 100 * row.anomaly_score < threshold_x100 THEN "critical"
    ELSE IF row.is_anomaly THEN "warning"
    ELSE "normal"

\* predict(), from "predictions = self.model.predict(X_scaled)" to the severity
\* column: the rows of result_df (no severity column on an empty batch, which
\* has no row)
score_rows(a, offset) ==
    LET predictions == model_predict(a, offset)
        flagged == [i \in 1..Len(a) |->
                       [is_anomaly |-> predictions[i] = -1, anomaly_score |-> a[i]]]
    IN IF Len(a) > 0
       THEN LET score_threshold_critical == percentile_x100(a, 1)
            IN [i \in 1..Len(a) |->
                   [is_anomaly |-> flagged[i].is_anomaly,
                    anomaly_score |-> flagged[i].anomaly_score,
                    severity |-> severity(flagged[i], score_threshold_critical)]]
       ELSE <<>>

InitSev ==
    /\ router = "anomalies"
    /\ faults = FALSE
    /\ SvcIdle
    /\ ClientIdle
    /\ WinIdle
    /\ FcIdle
    /\ ExtIdle
    /\ scores \in UNION {[1..n -> {-s : s \in 0..MaxScore}] : n \in 0..MaxBatch}
    /\ offset_ \in {-s : s \in 0..MaxScore}
    /\ result_df = NONE

\* the scoring part of predict() on the batch
call_score ==
    /\ result_df = NONE
    /\ result_df' = Some(score_rows(scores, offset_))
    /\ UNCHANGED <<router, workers, faults, store, reqs, resp, nruns, saved, client, win,
                   scores, offset_, fc, ext>>

NextSev == call_score

SpecSev == InitSev /\ [][NextSev]_vars

\* whether row i of the batch scores below the batch's 1st-percentile score
BelowFirstPercentile(i) == 100 * scores[i] < percentile_x100(scores, 1)

\* C11 (as amended): in a scored batch every row below the batch's 1st-percentile
\* score is critical, flagged or not; every other flagged row is warning; every
\* other unflagged row is normal
C11_SeverityCascade ==
    result_df # NONE =>
        /\ Len(result_df[1]) = Len(scores)
        /\ \A i \in 1..Len(scores) :
              LET row == result_df[1][i]
              IN /\ row.anomaly_score = scores[i]
                 /\ row.is_anomaly = (scores[i] < offset_)
                 /\ BelowFirstPercentile(i) => row.severity = "critical"
                 /\ (~BelowFirstPercentile(i) /\ row.is_anomaly) => row.severity = "warning"
                 /\ (~BelowFirstPercentile(i) /\ ~row.is_anomaly) => row.severity = "normal"

\* C11, witness: a scored batch in which a row that is not flagged is critical
\* (it scores below the 1st percentile of a batch without anomalies) next to a
\* normal row
C11_UnflaggedCriticalRow ==
    /\ result_df # NONE
    /\ \E i \in 1..Len(result_df[1]) :
          ~result_df[1][i].is_anomaly /\ result_df[1][i].severity = "critical"
    /\ \E i \in 1..Len(result_df[1]) : result_df[1][i].severity = "normal"

\* C11 (as claimed): every row below the batch's 1st-percentile score is
\* critical, every other flagged row is warning, and every unflagged row is
\* normal
C11_UnflaggedIsNormal ==
    result_df # NONE =>
        \A i \in 1..Len(scores) :
            LET row == result_df[1][i]
            IN /\ BelowFirstPercentile(i) => row.severity = "critical"
               /\ (~BelowFirstPercentile(i) /\ row.is_anomaly) => row.severity = "warning"
               /\ ~row.is_anomaly => row.severity = "normal"

(***************************************************************************)
(* SpecFc: LSTMForecaster.predict on tables of (timestamp, value) rows,    *)
(* called on a forecaster that holds a model, and the answer of the        *)
(* predict endpoint for the same table.  Values and timestamps (seconds)   *)
(* are integers; predicted values, standard deviations and confidence      *)
(* bounds are integers in thousandths.  The forecaster is called on two    *)
(* tables, recent_data and other_data, the second being the first with or  *)
(* without one more row in front.                                          *)
(*                                                                         *)
(* The sequence length (seq_len) is at least 2, as is the configured one   *)
(* (50): the sample standard deviation of a one-row table, which a         *)
(* sequence length of 1 would admit, is NaN.                               *)
(*                                                                         *)
(*   recent_data, other_data  the tables                                   *)
(*   weights    the parameters of the forecaster's scaler and network      *)
(*   predicted  NONE before the calls, then the outcomes of predict on     *)
(*              recent_data (first) and on other_data (second)             *)
(***************************************************************************)
\* longest recent_data table, and largest sequence length
MaxRecent == 3
\* the values of a table are 0, 5, ... 5 * MaxLevel
MaxLevel == 2

RECURSIVE Sum(_)
Sum(a) == IF a = <<>> THEN 0 ELSE Head(a) + Sum(Tail(a))

\* the integer square root of x, known to lie in lo..hi (x below 2^31, whose
\* square root is below 46341)
RECURSIVE isqrt_in(_, _, _)
isqrt_in(x, lo, hi) ==
    IF lo >= hi THEN lo
    ELSE LET mid == (lo + hi + 1) \div 2
         IN IF mid * mid <= x THEN isqrt_in(x, mid, hi) ELSE isqrt_in(x, lo, mid - 1)
isqrt(x) == isqrt_in(x, 0, IF x < 46340 THEN x ELSE 46340)

\* recent_data[value_column].values
column(df) == [i \in 1..Len(df) |-> df[i].value]

\* 1000 * pandas Series.std() (sample standard deviation, ddof = 1) of two or
\* more values, rounded down
std_x1000(a) ==
    LET n == Len(a)
        sq == [i \in 1..n |-> a[i] * a[i]]
    IN isqrt((1000000 * (n * Sum(sq) - Sum(a) * Sum(a))) \div (n * (n - 1)))

\* the whole array where predict takes values[-n:]
all_values(a, n) == a

\* values[-n:] for n >= 1
last_values(a, n) == py_slice(a, IF Len(a) > n THEN Len(a) - n ELSE 0, Len(a))

\* scaler.transform, model.predict and scaler.inverse_transform: the H outputs
\* (in thousandths) of the network for the L inputs X.  The network is some
\* fixed function of its parameters and of X; this one stands for it
forward(wts, X, H) ==
    [k \in 1..H |-> 1000 * (wts + (k - 1) + ((Sum(X) \div 5) % 2))]

\* pd.date_range(start, periods, freq)
date_range(start, periods, freq) == [k \in 1..periods |-> start + freq * (k - 1)]

\* the range of H timestamps from the start timestamp on, start included
future_timestamps_from_start(last_timestamp, H) == date_range(last_timestamp, H, 60)

\* pd.date_range(start=last_timestamp, periods=H + 1, freq='60S')[1:]
future_timestamps(last_timestamp, H) == Tail(date_range(last_timestamp, H + 1, 60))

\* a lower bound left as it is
clip_none(x, lower) == x

\* Series.clip(lower=lower), for one element
clip_lower(x, lower) == IF x < lower THEN lower ELSE x

\* predict(recent_data): the exception raised; X, the input of the forward pass
\* (NONE when it is not reached); the rows of result_df
LSTM_predict_rows(self, wts, recent) ==
    IF LSTM_predict(self, [rows |-> Len(recent)]).exc # NoExc
    THEN [exc |-> LSTM_predict(self, [rows |-> Len(recent)]).exc, X |-> NONE, result |-> NONE]
    ELSE LET values == last_values(column(recent), self.sequence_length)
             predictions == forward(wts, values, self.forecast_horizon)
             last_timestamp == recent[Len(recent)].timestamp
             timestamps == future_timestamps(last_timestamp, self.forecast_horizon)
             recent_std == std_x1000(column(recent))
             half == (196 * recent_std) \div 100
         IN [exc |-> NoExc, X |-> Some(values),
             result |-> Some([k \in 1..self.forecast_horizon |->
                 [timestamp |-> timestamps[k],
                  predicted_value |-> predictions[k],
                  confidence_lower |-> clip_lower(predictions[k] - half, 0),
                  confidence_upper |-> predictions[k] + half]])]

\* the forecaster of the calls: sequence length and horizon as constructed, a
\* model and a scaler from a training run
Forecaster ==
    [LSTM_init(seq_len, horizon) EXCEPT !.model = Fitted(1), !.scaler = Fitted(1),
                                         !.trained_at = Some(1),
                                         !.training_samples = MIN_TRAINING_SAMPLES]

\* predict() on a table, and the status predict_future answers when load()
\* gave this forecaster and the fetch gave this table
PredictOutcome(recent) ==
    LET o == LSTM_predict_rows(Forecaster, weights, recent)
        h == predict_after_load(Forecaster, TRUE, TRUE, [rows |-> Len(recent)])
    IN [exc |-> o.exc, X |-> o.X, result |-> o.result,
        status |-> IF h.exc = NoExc THEN 200
                   ELSE except_clause("predict_forecast", h.exc).status]

\* a table of rows 45 seconds apart holding the given values
Table(a) == [i \in 1..Len(a) |-> [timestamp |-> 45 * i, value |-> a[i]]]
Levels == {5 * v : v \in 0..MaxLevel}

InitFc ==
    /\ router = "forecasts"
    /\ faults = FALSE
    /\ SvcIdle
    /\ ClientIdle
    /\ SevIdle
    /\ ExtIdle
    /\ series = <<>>
    /\ windows = NONE
    /\ seq_len \in 2..MaxRecent
    /\ horizon \in 1..MaxWindow
    /\ weights \in {-3, 2}
    /\ recent_data \in {Table(a) : a \in UNION {[1..n -> Levels] : n \in 0..MaxRecent}}
    /\ other_data \in {recent_data}
                      \cup {<<[timestamp |-> 0, value |-> v]>> \o recent_data : v \in Levels}
    /\ predicted = NONE

\* forecaster.predict(recent_data) and forecaster.predict(other_data)
call_forecast ==
    /\ predicted = NONE
    /\ predicted' = Some([first |-> PredictOutcome(recent_data),
                          second |-> PredictOutcome(other_data)])
    /\ UNCHANGED <<router, workers, faults, store, reqs, resp, nruns, saved, client, win,
                   sev, recent_data, other_data, weights, ext>>

NextFc == call_forecast

SpecFc == InitFc /\ [][NextFc]_vars

\* the error of predict() on fewer than sequence_length rows
InsufficientData == Exc("ValueError", "Need recent points")

\* C12: in every forecast all H steps have confidence_upper = predicted_value + w
\* and confidence_lower = max(0, predicted_value - w) for one w, 1.96 times the
\* standard deviation of the table's values; so confidence_lower >= 0
C12_ConfidenceBand ==
    (predicted # NONE /\ predicted[1].first.result # NONE) =>
        LET rows == predicted[1].first.result[1]
            w == (196 * std_x1000(column(recent_data))) \div 100
        IN \A k \in 1..Len(rows) :
              /\ rows[k].confidence_upper = rows[k].predicted_value + w
              /\ rows[k].confidence_lower =
                    (IF rows[k].predicted_value - w > 0 THEN rows[k].predicted_value - w
                     ELSE 0)
              /\ rows[k].confidence_lower >= 0

\* C12, witness: a forecast step with predicted value 2.0 from a table whose
\* standard deviation is 5.0, with lower bound 0.0 and upper bound 11.8
C12_ClampExample ==
    /\ predicted # NONE /\ predicted[1].first.result # NONE
    /\ std_x1000(column(recent_data)) = 5000
    /\ \E k \in 1..horizon :
          LET row == predicted[1].first.result[1][k]
          IN /\ row.predicted_value = 2000
             /\ row.confidence_lower = 0
             /\ row.confidence_upper = 11800

\* the last n rows of a table (all of them when it has fewer)
LastRows(df, n) == last_values(df, n)

\* C13: two tables that agree on their last sequence_length rows (values and
\* timestamps) get the same outcome from predict()
C13_DependsOnLastRowsOnly ==
    (/\ predicted # NONE
     /\ Len(recent_data) >= seq_len /\ Len(other_data) >= seq_len
     /\ LastRows(recent_data, seq_len) = LastRows(other_data, seq_len))
    => predicted[1].first.result = predicted[1].second.result

\* C14: a forecast has exactly H rows, row k (k = 1..H) has timestamp
\* last input timestamp + 60 * k, the timestamps increase, and the last input
\* timestamp is not among them
C14_FutureTimestamps ==
    (predicted # NONE /\ predicted[1].first.result # NONE) =>
        LET rows == predicted[1].first.result[1]
            last_input == recent_data[Len(recent_data)].timestamp
        IN /\ Len(rows) = horizon
           /\ \A k \in 1..Len(rows) : rows[k].timestamp = last_input + 60 * k
           /\ \A k \in 1..(Len(rows) - 1) : rows[k].timestamp < rows[k + 1].timestamp
           /\ \A k \in 1..Len(rows) : rows[k].timestamp # last_input

\* C14, witness: a forecast of two or more rows from a table of more rows than
\* the sequence length
C14_ForecastOfSeveralSteps ==
    /\ predicted # NONE /\ predicted[1].first.result # NONE
    /\ Len(predicted[1].first.result[1]) >= 2
    /\ Len(recent_data) > seq_len

\* C15: predict() on fewer than sequence_length rows raises the "Need ... recent
\* points" ValueError without reaching the forward pass, and the endpoint
\* answers 400; on sequence_length rows or more it does not raise it, the input
\* of the forward pass has exactly sequence_length values, the last ones of the
\* table, and the endpoint answers 200
C15_NeedsSequenceLengthPoints ==
    predicted # NONE =>
        \A t \in {<<recent_data, predicted[1].first>>, <<other_data, predicted[1].second>>} :
            /\ Len(t[1]) < seq_len =>
                  /\ t[2].exc = InsufficientData
                  /\ t[2].X = NONE /\ t[2].result = NONE
                  /\ t[2].status = 400
            /\ Len(t[1]) >= seq_len =>
                  /\ t[2].exc = NoExc
                  /\ t[2].X # NONE /\ Len(t[2].X[1]) = seq_len
                  /\ \A j \in 1..seq_len :
                        t[2].X[1][j] = t[1][Len(t[1]) - seq_len + j].value
                  /\ t[2].status = 200

\* C15, witness: predict() was called on a table one row short of the sequence
\* length and on a table one row longer than it
C15_ShortAndLongTable ==
    /\ predicted # NONE
    /\ Len(recent_data) = seq_len - 1
    /\ Len(other_data) = seq_len
    /\ predicted[1].first.status = 400
    /\ predicted[1].second.status = 200

(***************************************************************************)
(* SpecTr: train_anomaly_detector (routers/anomalies.py) on the tables     *)
(* that fetch_multi_metric_history can return, from the fetch to the       *)
(* response, with a database and a disk that do not fail.                  *)
(*                                                                         *)
(*   table    the fetched table, as (rows, kind): the number of rows and,  *)
(*            for every candidate feature, what its column holds:          *)
(*              "null"    no non-null value                                *)
(*              "gaps"    finite values and nulls (NaN)                    *)
(*              "finite"  finite values only                               *)
(*              "inf"     an infinite value (used / total with total 0)    *)
(*   trained  NONE before the request, then its outcome: status and        *)
(*            detail of the response, and the feature list handed to       *)
(*            detector.train (NONE when train was not called)              *)
(***************************************************************************)
\* the tables have 0 rows, or MIN_TRAINING_SAMPLES - 1 and up to MaxSurplus more
\* than MIN_TRAINING_SAMPLES
MaxSurplus == 1

\* what the columns of the candidate features can hold after the query, the
\* derived ratios and dropna(subset=['cpu_usage']), in a table with rows
ColumnKinds(f) ==
    IF f = "cpu_usage" THEN {"finite"}
    ELSE IF f \in {"memory_usage_percent", "disk_usage_percent"}
    THEN {"null", "gaps", "finite", "inf"}
    ELSE {"null", "gaps", "finite"}

\* the DataFrame fetch_multi_metric_history returns for a table
fetch_multi_metric_history(tab) ==
    Frame(tab.rows, {f \in SeqToSet(all_possible_features) : tab.kind[f] # "null"})

\* whether scaler.fit_transform(X) and model.fit(X_scaled) return on the feature
\* columns: StandardScaler raises ValueError on an infinite value; a NaN passes
\* the scaler and reaches IsolationForest.fit, which rejects it or not with the
\* version of scikit-learn (nanOK)
fit_returns(tab, features, nanOK) ==
    \A i \in 1..Len(features) :
        /\ tab.kind[features[i]] # "inf"
        /\ tab.kind[features[i]] = "gaps" => nanOK

\* the handler on a table: the outcome and the store it leaves
train_anomaly_request(st, tab, nanOK) ==
    LET df == fetch_multi_metric_history(tab)
        features == select_features(df)
        r == train_anomaly_fit(0, TRUE, TRUE, df, fit_returns(tab, features, nanOK), 1)
        p == [Request("train_anomaly", a_, <<>>) EXCEPT !.obj = r.obj]
    IN IF r.exc # NoExc
       THEN [status |-> except_clause("train_anomaly", r.exc).status,
             detail |-> except_clause("train_anomaly", r.exc).detail,
             features |-> IF r.obj = NoObj THEN NONE ELSE r.obj.feature_names,
             st |-> st]
       ELSE [status |-> 200, detail |-> "",
             features |-> r.obj.feature_names,
             st |-> save(st, p, 3).st]

InitTr ==
    /\ router = "anomalies"
    /\ faults = FALSE
    /\ SvcIdle
    /\ ClientIdle
    /\ WinIdle
    /\ SevIdle
    /\ FcIdle
    /\ SplitIdle
    /\ DetIdle
    /\ CanIdle
    /\ BridgeIdle
    /\ MaxIdle
    /\ \E rows \in {0} \cup ((MIN_TRAINING_SAMPLES - 1)..(MIN_TRAINING_SAMPLES + MaxSurplus)) :
       \E kind \in [SeqToSet(all_possible_features) -> {"null", "gaps", "finite", "inf"}] :
          /\ \A f \in DOMAIN kind :
                kind[f] \in (IF rows = 0 THEN {"null"} ELSE ColumnKinds(f))
          /\ table = Some([rows |-> rows, kind |-> kind])
    /\ trained = NONE

\* POST /ml/anomalies/train/a
call_train_anomaly ==
    /\ trained = NONE
    /\ \E nanOK \in BOOLEAN :
          LET o == train_anomaly_request(store, table[1], nanOK)
          IN /\ trained' = Some([status |-> o.status, detail |-> o.detail,
                                 features |-> o.features])
             /\ store' = o.st
    /\ UNCHANGED <<router, workers, faults, reqs, resp, nruns, saved, client, win, sev, fc,
                   table, sp, det, can, br, mx>>

NextTr == call_train_anomaly

SpecTr == InitTr /\ [][NextTr]_vars

\* the usable features of the table: the candidates whose column holds at least
\* one non-null value
Usable == {f \in SeqToSet(all_possible_features) : table[1].kind[f] # "null"}
\* the position of a feature in the candidate list
Position(f) == CHOOSE i \in 1..Len(all_possible_features) : all_possible_features[i] = f
\* the model, scaler and metadata files of the device exist
Persisted == ~Untrained(store, Request("train_anomaly", a_, <<>>))

\* C21: training on a table of at least MIN_TRAINING_SAMPLES rows with K >= 2
\* usable features answers 200, persists the model, and the feature-name list
\* stored with it has length K
C21_TrainSucceeds ==
    (/\ trained # NONE
     /\ table[1].rows >= MIN_TRAINING_SAMPLES
     /\ Cardinality(Usable) >= 2)
    => /\ trained[1].status = 200
       /\ Persisted
       /\ store[IF_metadata_path(a_)].feature_names # NONE
       /\ Len(store[IF_metadata_path(a_)].feature_names[1]) = Cardinality(Usable)

\* the list is the usable features, each once, in candidate order
InCandidateOrder(list) ==
    /\ SeqToSet(list) = Usable
    /\ \A i, j \in 1..Len(list) : i < j => Position(list[i]) < Position(list[j])

\* the request was rejected for lack of features: 400, and nothing persisted
InsufficientFeatures ==
    /\ trained[1].status = 400
    /\ trained[1].detail = "Not enough features"
    /\ trained[1].features = NONE
    /\ ~Persisted

\* C23 (as amended): on a table of at least 100 rows, the request is rejected with
\* InsufficientFeatures (400, nothing persisted) exactly when fewer than 2
\* features are usable, and otherwise the list handed to train() is the usable
\* candidates, each once, in candidate order; on fewer rows train() is not called
C23_FeatureSelection ==
    trained # NONE =>
        /\ table[1].rows >= 100 =>
              /\ InsufficientFeatures <=> Cardinality(Usable) < 2
              /\ Cardinality(Usable) >= 2 =>
                    /\ trained[1].features # NONE
                    /\ InCandidateOrder(trained[1].features[1])
        /\ table[1].rows < 100 => trained[1].features = NONE /\ ~Persisted

\* C23, witness: a table of 100 rows or more with one usable feature was
\* rejected, nothing being persisted
C23_RejectedWithOneFeature ==
    /\ trained # NONE
    /\ table[1].rows >= 100
    /\ Cardinality(Usable) = 1
    /\ InsufficientFeatures

\* C23 (as claimed): the request is rejected with InsufficientFeatures exactly
\* when fewer than 2 features are usable, and otherwise the list handed to
\* train() is the usable candidates in candidate order
C23_RejectedIffFewFeatures ==
    trained # NONE =>
        /\ InsufficientFeatures <=> Cardinality(Usable) < 2
        /\ trained[1].features # NONE => InCandidateOrder(trained[1].features[1])

(***************************************************************************)
(* SpecSplit: LSTMForecaster.train (lines 57-74) on a table, up to the     *)
(* split of the windows into a training and a validation part.  A window   *)
(* is named by its start index in the series (0 for the earliest).         *)
(*                                                                         *)
(*   df_rows  the number of rows of the table handed to train()            *)
(*   split    NONE before the call; then the exception train() raised      *)
(*            before the split, or NoExc and X, X_train and X_val          *)
(***************************************************************************)
\* the tables give up to MIN_TRAINING_SAMPLES + MaxExtraWindows windows
MaxExtraWindows == 10

\* n * 0.8 rounded to the nearest integer
split_idx_rounded(n) == (n * 8 + 5) \div 10

\* int(n * 0.8): the double nearest to 0.8 is just above 4/5, and the product is
\* rounded to a double that is n * 4 / 5 itself or above it by less than 1/5, so
\* the truncation is the integer part of n * 4 / 5
split_idx(n) == (n * 8) \div 10

\* X_train, X_val = X[:split_idx], X[split_idx:]
train_val_split(X) ==
    [X_train |-> py_slice(X, 0, split_idx(Len(X))),
     X_val |-> py_slice(X, split_idx(Len(X)), Len(X))]

\* train(df) of a fresh forecaster up to line 74
LSTM_train_split(self, df) ==
    LET t == LSTM_train(self, df, TRUE, 1)
        X == [i \in 1..num_windows(self, df.rows) |-> i - 1]
    IN IF t.exc # NoExc
       THEN [exc |-> t.exc, X |-> X, X_train |-> NONE, X_val |-> NONE]
       ELSE [exc |-> NoExc, X |-> X,
             X_train |-> Some(train_val_split(X).X_train),
             X_val |-> Some(train_val_split(X).X_val)]

InitSplit ==
    /\ router = "forecasts"
    /\ faults = FALSE
    /\ SvcIdle
    /\ ClientIdle
    /\ WinIdle
    /\ SevIdle
    /\ FcIdle
    /\ TrIdle
    /\ DetIdle
    /\ CanIdle
    /\ BridgeIdle
    /\ MaxIdle
    /\ df_rows \in 0..(LSTM_SEQUENCE_LENGTH + LSTM_FORECAST_HORIZON
                          + MIN_TRAINING_SAMPLES + MaxExtraWindows)
    /\ split = NONE

\* LSTMForecaster().train(df)
call_train_split ==
    /\ split = NONE
    /\ split' = Some(LSTM_train_split(LSTM_init(0, 0), [rows |-> df_rows]))
    /\ UNCHANGED <<router, workers, faults, store, reqs, resp, nruns, saved, client, win,
                   sev, fc, tr, df_rows, det, can, br, mx>>

NextSplit == call_train_split

SpecSplit == InitSplit /\ [][NextSplit]_vars

\* C24: when train() reaches the split of its n windows, X_train is the first
\* floor(0.8 * n) windows and X_val the other n - floor(0.8 * n), both in time
\* order; every window of X_train is earlier than every window of X_val; every
\* window is in exactly one of the two; and, n being at least
\* MIN_TRAINING_SAMPLES, neither is empty
C24_TrainValidationSplit ==
    (split # NONE /\ split[1].exc = NoExc) =>
        LET X == split[1].X
            n == Len(X)
            X_train == split[1].X_train[1]
            X_val == split[1].X_val[1]
            k == Len(X_train)
        IN /\ n >= MIN_TRAINING_SAMPLES
           /\ 5 * k <= 4 * n /\ 5 * (k + 1) > 4 * n
           /\ Len(X_val) = n - k
           /\ \A i \in 1..k : X_train[i] = X[i]
           /\ \A i \in 1..(n - k) : X_val[i] = X[k + i]
           /\ \A i \in 1..k : \A j \in 1..(n - k) : X_train[i] < X_val[j]
           /\ SeqToSet(X_train) \cap SeqToSet(X_val) = {}
           /\ SeqToSet(X_train) \cup SeqToSet(X_val) = SeqToSet(X)
           /\ k > 0 /\ n - k > 0

\* C24, witness: train() split 102 windows into 81 and 21 (floor(81.6) = 81)
C24_SplitOf102Windows ==
    /\ split # NONE /\ split[1].exc = NoExc
    /\ Len(split[1].X) = 102
    /\ Len(split[1].X_train[1]) = 81
    /\ Len(split[1].X_val[1]) = 21

(***************************************************************************)
(* SpecDet: detect_anomalies (routers/anomalies.py, lines 119-153) after   *)
(* load() and the fetch returned: predict() on the fetched table and the   *)
(* building of the response.  The table is ordered by timestamp (ORDER BY  *)
(* timestamp ASC in the query), and row i of it has timestamp i.  The      *)
(* batch is three runs of rows, the rows of a run sharing one score, so    *)
(* that batches long enough for the limit of 100 listed anomalies stay     *)
(* few.                                                                    *)
(*                                                                         *)
(*   scores, offset_, result_df  as in SpecSev                             *)
(*   response  NONE before the request, then the status and, for a 200,    *)
(*             the fields of the DetectResponse                            *)
(***************************************************************************)
\* a run of rows has no row, 1..MaxFew rows, or 100..100 + MaxFew rows
MaxFew == 1

\* the scores of the three runs, in the order of the table
RunScores == <<-3, -1, -2>>
RunLengths == {0} \cup (1..MaxFew) \cup (100..(100 + MaxFew))

\* n copies of v
Repeat(v, n) == [i \in 1..n |-> v]

\* DataFrame.head(n) without the limit
head_all(rows, n) == rows

\* DataFrame.head(n)
head(rows, n) == py_slice(rows, 0, n)

\* results[results['is_anomaly']], each row with its timestamp
anomalies_of(results) ==
    SelectSeq([i \in 1..Len(results) |->
                  [timestamp |-> i,
                   is_anomaly |-> results[i].is_anomaly,
                   anomaly_score |-> results[i].anomaly_score,
                   severity |-> results[i].severity]],
              LAMBDA row : row.is_anomaly)

\* the handler from "if len(df) == 0" to its return, for the rows predict() gave
detect_response(results) ==
    IF Len(results) = 0
    THEN [status |-> except_clause("detect", HTTPException(404, "No data found")).status,
          analyzed_points |-> 0, anomalies_detected |-> 0, anomalies |-> <<>>]
    ELSE LET anomalies_df == anomalies_of(results)
         IN [status |-> 200,
             analyzed_points |-> Len(results),
             anomalies_detected |-> Len(anomalies_df),
             anomalies |-> head(anomalies_df, 100)]

InitDet ==
    /\ router = "anomalies"
    /\ faults = FALSE
    /\ SvcIdle
    /\ ClientIdle
    /\ WinIdle
    /\ FcIdle
    /\ TrIdle
    /\ SplitIdle
    /\ CanIdle
    /\ BridgeIdle
    /\ MaxIdle
    /\ \E n1, n2, n3 \in RunLengths :
          scores = Repeat(RunScores[1], n1) \o Repeat(RunScores[2], n2)
                   \o Repeat(RunScores[3], n3)
    /\ offset_ \in {-3, -2, -1, 0}
    /\ result_df = NONE
    /\ response = NONE

\* GET /ml/anomalies/detect/a on a trained key
call_detect ==
    /\ response = NONE
    /\ result_df' = Some(score_rows(scores, offset_))
    /\ response' = Some(detect_response(score_rows(scores, offset_)))
    /\ UNCHANGED <<router, workers, faults, store, reqs, resp, nruns, saved, client, win,
                   scores, offset_, fc, tr, sp, can, br, mx>>

NextDet == call_detect

SpecDet == InitDet /\ [][NextDet]_vars

\* the timestamps (row numbers) of the flagged rows of the batch, in time order
Flagged == SelectSeq([i \in 1..Len(scores) |-> i], LAMBDA i : scores[i] < offset_)

\* C26: in a 200 detect response analyzed_points is the number of scored rows,
\* anomalies_detected the number of flagged rows, and the anomalies listed are
\* the first min(100, anomalies_detected) flagged rows, in time order; every
\* listed point is flagged and its severity is warning or critical
C26_DetectResponse ==
    (response # NONE /\ response[1].status = 200) =>
        LET r == response[1]
            m == IF Len(Flagged) < 100 THEN Len(Flagged) ELSE 100
        IN /\ r.analyzed_points = Len(scores)
           /\ r.anomalies_detected = Len(Flagged)
           /\ Len(r.anomalies) = m
           /\ \A k \in 1..m :
                 /\ r.anomalies[k].timestamp = Flagged[k]
                 /\ r.anomalies[k].anomaly_score = scores[Flagged[k]]
                 /\ r.anomalies[k].is_anomaly
                 /\ r.anomalies[k].severity \in {"warning", "critical"}

\* C26, witness: a response over more than 100 flagged rows, with unflagged
\* rows before the hundredth, lists 100 of them, critical and warning ones
C26_LimitReached ==
    /\ response # NONE /\ response[1].status = 200
    /\ response[1].anomalies_detected > 100
    /\ Len(response[1].anomalies) = 100
    /\ response[1].anomalies[100].timestamp > 100
    /\ \E k \in 1..100 : response[1].anomalies[k].severity = "critical"
    /\ \E k \in 1..100 : response[1].anomalies[k].severity = "warning"

(***************************************************************************)
(* SpecCan: CANBusSimulator (sensors/canbus-simulator/canbus_simulator.py):*)
(* the accept loop of start() in the main thread and one handle_client     *)
(* thread per accepted connection.  A connection is named by a number; its *)
(* client_socket object bears the same name.  A step of a thread is one    *)
(* statement that touches the socket or the shared fields running and      *)
(* clients.  generate_messages() returns 10 messages a round; the model    *)
(* sends MaxMessages a round.                                              *)
(*                                                                         *)
(*   server   "created" (before start()), "listening" (in the accept loop) *)
(*            or "stopped" (after the finally clause of start())           *)
(*   running  self.running                                                 *)
(*   clients  self.clients, a list                                         *)
(*   threads  for every connection, where its handle_client thread is (pc) *)
(*            and, in the for loop, the number of the message to send      *)
(*   peers    for every connection, "none" (not made yet), "connected" or  *)
(*            "gone" (the client has disconnected)                         *)
(*   closed   the client sockets on which close() was called               *)
(***************************************************************************)
\* number of connections made to the simulator in one behaviour
MaxClients == 2
\* number of messages sent in one round of the send loop
MaxMessages == 2

Sockets == 1..MaxClients

\* list.remove(x) of an element that occurs once
list_remove(list, x) == SelectSeq(list, LAMBDA y : y # x)

InitCan ==
    /\ router = "anomalies"
    /\ faults = FALSE
    /\ SvcIdle
    /\ ClientIdle
    /\ WinIdle
    /\ SevIdle
    /\ FcIdle
    /\ TrIdle
    /\ SplitIdle
    /\ DetIdle
    /\ BridgeIdle
    /\ MaxIdle
    /\ server = "created"
    /\ running = FALSE
    /\ clients = <<>>
    /\ threads = [c \in Sockets |-> [pc |-> "idle", msg |-> 0]]
    /\ peers = [c \in Sockets |-> "none"]
    /\ closed = {}

CanUnchanged ==
    UNCHANGED <<router, workers, faults, store, reqs, resp, nruns, saved, client, win,
                sev, fc, tr, sp, det, br, mx>>

\* start(), up to the accept loop
start ==
    /\ server = "created"
    /\ server' = "listening"
    /\ running' = TRUE
    /\ UNCHANGED <<clients, threads, peers, closed>>
    /\ CanUnchanged

\* start(): accept() returns connection c and its thread is started
start_accept(c) ==
    /\ server = "listening"
    /\ peers[c] = "none"
    /\ peers' = [peers EXCEPT ![c] = "connected"]
    /\ threads' = [threads EXCEPT ![c] = [pc |-> "append", msg |-> 0]]
    /\ UNCHANGED <<server, running, clients, closed>>
    /\ CanUnchanged

\* start(): KeyboardInterrupt in the accept loop, and the finally clause
start_interrupted ==
    /\ server = "listening"
    /\ server' = "stopped"
    /\ running' = FALSE
    /\ closed' = closed \cup SeqToSet(clients)
    /\ UNCHANGED <<clients, threads, peers>>
    /\ CanUnchanged

\* the client of connection c disconnects
client_disconnects(c) ==
    /\ peers[c] = "connected"
    /\ peers' = [peers EXCEPT ![c] = "gone"]
    /\ UNCHANGED <<server, running, clients, threads, closed>>
    /\ CanUnchanged

\* where the thread goes after client_socket.sendall(msg.to_bytes()) of message
\* number msg: the "finally" clause when sendall raises an exception that is
\* neither BrokenPipeError nor ConnectionResetError (the socket was closed by
\* start()); out of the for loop when it raises one of the two (the peer is
\* gone); the next message, or the end of the for loop
after_sendall(c, msg) ==
    IF c \in closed THEN [pc |-> "finally", msg |-> 0]
    ELSE IF peers[c] = "gone" THEN [pc |-> "sleep", msg |-> 0]
    ELSE IF msg < MaxMessages THEN [pc |-> "send", msg |-> msg + 1]
    ELSE [pc |-> "sleep", msg |-> 0]

\* one step of handle_client(client_socket, address) for connection c
handle_client(c) ==
    /\ \/ /\ threads[c].pc = "append"
          /\ clients' = Append(clients, c)
          /\ threads' = [threads EXCEPT ![c].pc = "while"]
          /\ UNCHANGED closed
       \/ /\ threads[c].pc = "while"
          /\ threads' = [threads EXCEPT ![c] = IF running THEN [pc |-> "send", msg |-> 1]
                                                ELSE [pc |-> "finally", msg |-> 0]]
          /\ UNCHANGED <<clients, closed>>
       \/ /\ threads[c].pc = "send"
          /\ threads' = [threads EXCEPT ![c] = after_sendall(c, threads[c].msg)]
          /\ UNCHANGED <<clients, closed>>
       \/ /\ threads[c].pc = "sleep"
          /\ threads' = [threads EXCEPT ![c].pc = "while"]
          /\ UNCHANGED <<clients, closed>>
       \/ /\ threads[c].pc = "finally"
          /\ clients' = IF c \in SeqToSet(clients) THEN list_remove(clients, c) ELSE clients
          /\ closed' = closed \cup {c}
          /\ threads' = [threads EXCEPT ![c].pc = "exited"]
    /\ UNCHANGED <<server, running, peers>>
    /\ CanUnchanged

NextCan ==
    \/ start
    \/ start_interrupted
    \/ \E c \in Sockets :
        \/ start_accept(c)
        \/ client_disconnects(c)
        \/ handle_client(c)

SpecCan == InitCan /\ [][NextCan]_vars

\* the threads of the running simulator are scheduled: a thread that can take a
\* step while the simulator runs eventually takes one
LiveCan == SpecCan /\ \A c \in Sockets : WF_vars(running /\ handle_client(c))

\* C27: once the client of a connection has disconnected, the connection's
\* thread eventually has left its loop, removed the socket from clients and
\* closed it, unless the simulator stops running
C27_DisconnectedClientRemoved ==
    \A c \in Sockets :
        (peers[c] = "gone") ~>
            \/ (threads[c].pc = "exited" /\ c \notin SeqToSet(clients) /\ c \in closed)
            \/ ~running

(***************************************************************************)
(* SpecBridge: the predictor bridge (nodes/predictor/predictor.py), a      *)
(* process that reads lines from its standard input and prints lines to    *)
(* its standard output, and the parent that writes its input.  A line is   *)
(* "json" (json.loads accepts it) or "garbage" (json.loads raises).        *)
(*                                                                         *)
(*   stdin    the lines written by the parent and not yet read             *)
(*   eof      the parent has closed the pipe: input() raises EOFError once *)
(*            stdin is empty, and blocks before                            *)
(*   bridge   where the process is: "config" (at line 8), "loop" (at the   *)
(*            top of the while loop) or "exited" (an uncaught exception)   *)
(*   model    the global model: "None" or "loaded"                         *)
(*   nread    the number of lines read by the input() of the loop          *)
(*   stdout   the lines printed: "prediction" or "error" each              *)
(*   nwritten the number of lines the parent has written                   *)
(***************************************************************************)
\* number of lines the parent writes
MaxLines == 4
\* number of lines the bridge prints
MaxOutput == 5

InitBridge ==
    /\ router = "anomalies"
    /\ faults = FALSE
    /\ SvcIdle
    /\ ClientIdle
    /\ WinIdle
    /\ SevIdle
    /\ FcIdle
    /\ TrIdle
    /\ SplitIdle
    /\ DetIdle
    /\ CanIdle
    /\ MaxIdle
    /\ stdin = <<>>
    /\ eof = FALSE
    /\ bridge = "config"
    /\ model = "None"
    /\ nread = 0
    /\ stdout = <<>>
    /\ nwritten = 0

BridgeUnchanged ==
    UNCHANGED <<router, workers, faults, store, reqs, resp, nruns, saved, client, win,
                sev, fc, tr, sp, det, can, mx>>

\* the parent writes a line
parent_writes ==
    /\ ~eof
    /\ nwritten < MaxLines
    /\ \E line \in {"json", "garbage"} : stdin' = Append(stdin, line)
    /\ nwritten' = nwritten + 1
    /\ UNCHANGED <<eof, bridge, model, nread, stdout>>
    /\ BridgeUnchanged

\* the parent closes the pipe
parent_closes ==
    /\ ~eof
    /\ eof' = TRUE
    /\ UNCHANGED <<stdin, bridge, model, nread, stdout, nwritten>>
    /\ BridgeUnchanged

\* load(): the model of one of the two libraries, or None when both raise
load_results == {"loaded", "None"}

\* lines 8-21: config = json.loads(input()); model = load()
read_config ==
    /\ bridge = "config"
    /\ stdin # <<>> \/ eof
    /\ IF stdin = <<>> \/ Head(stdin) = "garbage"
       THEN /\ bridge' = "exited"
            /\ UNCHANGED model
       ELSE /\ bridge' = "loop"
            /\ model' \in load_results
    /\ stdin' = IF stdin = <<>> THEN stdin ELSE Tail(stdin)
    /\ UNCHANGED <<eof, nread, stdout, nwritten>>
    /\ BridgeUnchanged

\* lines 26-47 after input() returned a line: the model after "if model is None:
\* model = load()" and the line printed, by the try block or by its except clause
handle_line(line, m, predictOK) ==
    IF line = "garbage" THEN [model |-> model, out |-> "error"]
    ELSE IF m = "None" THEN [model |-> m, out |-> "error"]
    ELSE [model |-> m, out |-> IF predictOK THEN "prediction" ELSE "error"]

\* one iteration of the while loop, from input() to print; predictOK says
\* whether update(), predict() and json.dumps() return
loop_iteration ==
    /\ bridge = "loop"
    /\ stdin # <<>> \/ eof
    /\ Len(stdout) < MaxOutput
    /\ IF stdin = <<>>
       THEN \* input() raises EOFError, an Exception: the except clause prints
            /\ stdout' = Append(stdout, "error")
            /\ UNCHANGED <<stdin, nread, model>>
       ELSE \E m \in (IF model = "None" THEN load_results ELSE {model}),
               predictOK \in BOOLEAN :
               /\ stdin' = Tail(stdin)
               /\ nread' = nread + 1
               /\ model' = handle_line(Head(stdin), m, predictOK).model
               /\ stdout' = Append(stdout, handle_line(Head(stdin), m, predictOK).out)
    /\ UNCHANGED <<eof, bridge, nwritten>>
    /\ BridgeUnchanged

NextBridge ==
    \/ parent_writes
    \/ parent_closes
    \/ read_config
    \/ loop_iteration

SpecBridge == InitBridge /\ [][NextBridge]_vars

\* C28: between two iterations of its loop the bridge has printed exactly one
\* line for every line it read after the configuration line, and none besides
C28_OneLinePerRequest == Len(stdout) = nread

(***************************************************************************)
(* SpecMax: the MAX31855 thermocouple reader (max31855/max31855_reader.py):*)
(* read() clocking a 32-bit word out of the chip, checkErrors() and the    *)
(* two conversions, as get() and get_rj() call them.  units is "c", as in  *)
(* the main loop.                                                          *)
(*                                                                         *)
(* A Python int that may exceed 31 bits is a pair <<hi, lo>> standing for  *)
(* hi * 2^16 + lo, with 0 <= lo < 2^16.  A temperature is an integer in    *)
(* ten-thousandths of a degree (0.25 is 2500, 0.0625 is 625).              *)
(*                                                                         *)
(*   chip  the word the chip holds, by fields: tc (bits 31..18, the        *)
(*         thermocouple temperature in quarter degrees), rj (bits 15..4,   *)
(*         the reference junction temperature in sixteenths), fault (bit   *)
(*         16), low (bits 2..0: short to VCC, short to ground, open        *)
(*         circuit) and res (bits 17 and 3)                                *)
(*   data  self.data: None (NONE) or the int assembled by read()           *)
(*   got   NONE before the call; then the call made (get or get_rj), the   *)
(*         exception it raised, the value it returned and the number of    *)
(*         bits read() read                                                *)
(***************************************************************************)
\* the temperatures of the chip are the two ends of their range and
\* -MaxStep..MaxStep steps (quarters or sixteenths of a degree)
MaxStep == 2

\* v modulo 2^bits: the two's-complement field of a signed value
Field(v, bits) == v % (2 ^ bits)

\* the word of the chip, as an int
Word(c) ==
    <<Field(c.tc, 14) * 4 + (c.res \div 2) * 2 + c.fault,
      Field(c.rj, 12) * 16 + (c.res % 2) * 8 + c.low>>

\* bit k (0 the least significant) of an int
Bit(x, k) == IF k >= 16 THEN (x[1] \div (2 ^ (k - 16))) % 2 ELSE (x[2] \div (2 ^ k)) % 2

\* the level of the data pin at clock pulse i (1..32) of a read: the chip
\* shifts its word out from bit 31 down
data_pin(c, i) == Bit(Word(c), 32 - i)

\* bytesin << 1
shift_left_1(x) == <<2 * x[1] + x[2] \div 32768, (2 * x[2]) % 65536>>
\* bytesin |= 1, for an even bytesin
or_1(x) == <<x[1], x[2] + 1>>

\* read(): the for loop, from the state s it is in: the value of bytesin and
\* the number of clock pulses given so far
RECURSIVE read_loop(_, _)
read_loop(c, s) ==
    IF s.pulses >= 32 THEN s
    ELSE read_loop(c, [pulses |-> s.pulses + 1,
                       bytesin |-> IF data_pin(c, s.pulses + 1) = 1
                                   THEN or_1(shift_left_1(s.bytesin))
                                   ELSE shift_left_1(s.bytesin)])

\* read(): the value of self.data and the number of clock pulses
read(c) == read_loop(c, [pulses |-> 0, bytesin |-> <<0, 0>>])

MAX31855Error(value) == Exc("MAX31855Error", value)

\* checkErrors(): the exception raised, or NoExc
checkErrors(data_32) ==
    IF data_32[1] % 2 = 1
    THEN IF data_32[2] % 2 = 1 THEN NoExc
         ELSE IF (data_32[2] \div 2) % 2 = 1 THEN NoExc
         ELSE IF (data_32[2] \div 4) % 2 = 1 THEN MAX31855Error("Thermocouple short to VCC")
         ELSE MAX31855Error("Unknown Error")
    ELSE NoExc

\* convert_tc_data without the test of the sign bit
convert_tc_data_unsigned(tc_data) == tc_data * 2500

\* convert_tc_data(): ~tc_data & 0x1FFF is 0x1FFF - (tc_data & 0x1FFF)
convert_tc_data(tc_data) ==
    IF (tc_data \div 8192) % 2 = 1
    THEN ((8191 - (tc_data % 8192)) + 1) * (-1) * 2500
    ELSE tc_data * 2500

\* convert_rj_data(): ~rj_data & 0x7FF is 0x7FF - (rj_data & 0x7FF)
convert_rj_data(rj_data) ==
    IF (rj_data \div 2048) % 2 = 1
    THEN ((2047 - (rj_data % 2048)) + 1) * (-1) * 625
    ELSE rj_data * 625

\* data_to_tc_temperature(): (data_32 >> 18) & 0x3FFF
data_to_tc_temperature(data_32) == convert_tc_data((data_32[1] \div 4) % 16384)

\* data_to_rj_temperature(): (data_32 >> 4) & 0xFFF
data_to_rj_temperature(data_32) == convert_rj_data((data_32[2] \div 16) % 4096)

to_c(celsius) == celsius

\* get()
get(c) ==
    LET r == read(c)
    IN [op |-> "get", data |-> r.bytesin, pulses |-> r.pulses,
        exc |-> checkErrors(r.bytesin),
        value |-> IF checkErrors(r.bytesin) # NoExc THEN NONE
                  ELSE Some(to_c(data_to_tc_temperature(r.bytesin)))]

\* get_rj()
get_rj(c) ==
    LET r == read(c)
    IN [op |-> "get_rj", data |-> r.bytesin, pulses |-> r.pulses, exc |-> NoExc,
        value |-> Some(to_c(data_to_rj_temperature(r.bytesin)))]

InitMax ==
    /\ router = "anomalies"
    /\ faults = FALSE
    /\ SvcIdle
    /\ ClientIdle
    /\ WinIdle
    /\ SevIdle
    /\ FcIdle
    /\ TrIdle
    /\ SplitIdle
    /\ DetIdle
    /\ CanIdle
    /\ BridgeIdle
    /\ chip \in [tc : {-8192, 8191} \cup (-MaxStep..MaxStep),
                 rj : {-2048, 2047} \cup (-MaxStep..MaxStep),
                 fault : {0, 1}, low : 0..7, res : 0..3]
    /\ data = NONE
    /\ got = NONE

MaxUnchanged ==
    UNCHANGED <<router, workers, faults, store, reqs, resp, nruns, saved, client, win,
                sev, fc, tr, sp, det, can, br, chip>>

\* thermocouple.get()
call_get ==
    /\ got = NONE
    /\ data' = Some(get(chip).data)
    /\ got' = Some([op |-> "get", exc |-> get(chip).exc, value |-> get(chip).value,
                    pulses |-> get(chip).pulses])
    /\ MaxUnchanged

\* thermocouple.get_rj()
call_get_rj ==
    /\ got = NONE
    /\ data' = Some(get_rj(chip).data)
    /\ got' = Some([op |-> "get_rj", exc |-> NoExc, value |-> get_rj(chip).value,
                    pulses |-> get_rj(chip).pulses])
    /\ MaxUnchanged

NextMax == call_get \/ call_get_rj

SpecMax == InitMax /\ [][NextMax]_vars

\* C29: get() returns a temperature exactly when the fault bit of the word it
\* read is clear, and raises MAX31855Error, returning nothing, when it is set
C29_FaultRaises ==
    (got # NONE /\ got[1].op = "get") =>
        /\ chip.fault = 0 => (got[1].exc = NoExc /\ got[1].value # NONE)
        /\ chip.fault = 1 => (got[1].exc.cls = "MAX31855Error" /\ got[1].value = NONE)

\* C30: read() takes 32 clock pulses and leaves in self.data the word of the
\* chip, first bit read highest; the thermocouple conversion of it is 0.25 times
\* the signed value of bits 31..18 and the reference junction conversion 0.0625
\* times the signed value of bits 15..4, whatever the other bits
C30_SignConversion ==
    got # NONE =>
        /\ got[1].pulses = 32
        /\ data = Some(Word(chip))
        /\ data_to_tc_temperature(data[1]) = 2500 * chip.tc
        /\ data_to_rj_temperature(data[1]) = 625 * chip.rj
        /\ chip.tc \in -8192..8191 /\ chip.rj \in -2048..2047
        /\ (got[1].op = "get" /\ got[1].value # NONE) => got[1].value[1] = 2500 * chip.tc
        /\ got[1].op = "get_rj" => got[1].value = Some(625 * chip.rj)

\* C30, witness: get_rj() returned -128.0 degrees and get() would return -2048.0,
\* the lowest values of the two fields, all other bits of the word being set
C30_LowestTemperatures ==
    /\ got # NONE /\ got[1].op = "get_rj"
    /\ got[1].value = Some(-1280000)
    /\ data_to_tc_temperature(data[1]) = -20480000
    /\ chip.fault = 1 /\ chip.low = 7 /\ chip.res = 3

=============================================================================
